---- MODULE Spec2Model ----
(***************************************************************************)
(* Model of the generate_hcl engine (generate/genhcl/genhcl.go): Load, the *)
(* per-block evaluation pipeline, copyBody and the tm_dynamic expansion.   *)
(*                                                                         *)
(* Strings that the code only compares for equality are TLA+ strings.      *)
(* Labels, which Load orders with Go's string "<", are sequences of code   *)
(* points ordered lexicographically.  Go errors are sequences of error     *)
(* kinds: <<>> is nil, an errors.L() list is the sequence of its members,  *)
(* an error that wraps another is its kind followed by the wrapped error.  *)
(***************************************************************************)
EXTENDS Integers, Sequences, FiniteSets, TLC

(***************************************************************************)
(* Bounds of the model.                                                    *)
(***************************************************************************)
\* the largest number of generate_hcl blocks in the hierarchy of one run
MaxBlocks == 2
\* the largest number of elements of a for_each collection
MaxElems == 2
\* the largest number of stack filters of a block
MaxFilters == 2
\* the largest number of blocks nested in a tm_dynamic block
MaxNested == 2

(***************************************************************************)
(* cty values.  Every value is a record of the same shape so that values   *)
(* of different types can be compared.  A collection holds its elements    *)
(* as the sequence of (key, value) pairs that ForEachElement visits.       *)
(***************************************************************************)
Val(t, b, n, s, l) == [t |-> t, b |-> b, n |-> n, s |-> s, l |-> l]

BoolVal(b) == Val("bool", b, 0, "", <<>>)

NumVal(n) == Val("number", FALSE, n, "", <<>>)

StrVal(s) == Val("string", FALSE, 0, s, <<>>)

\* a list: ForEachElement visits index (from 0) and element
ListVal(elems) == Val("list", FALSE, 0, "", [i \in 1..Len(elems) |-> [k |-> NumVal(i - 1), v |-> elems[i]]])

\* a map/object: pairs is the sequence of [k, v] in ascending key order
MapVal(pairs) == Val("map", FALSE, 0, "", pairs)

\* a null of list type: iterable by type, IsNull reports true
NullVal == Val("null", FALSE, 0, "", <<>>)

IsNull(v) == v.t = "null"

CanIterateElements(v) == v.t \in {"list", "map", "null"}

True(v) == v.b

(***************************************************************************)
(* Expressions (hclsyntax.Expression).  "lit" a literal, "ref" the scoped  *)
(* traversal ns.attr, "fail" an expression whose evaluation always fails   *)
(* (a call with bad arguments), "obj" an object constructor, "absent" a    *)
(* nil attribute pointer.                                                  *)
(***************************************************************************)
Expr(e, val, ns, attr, items) == [e |-> e, val |-> val, ns |-> ns, attr |-> attr, items |-> items]

Lit(v) == Expr("lit", v, "", "", <<>>)

Ref(ns, attr) == Expr("ref", NullVal, ns, attr, <<>>)

Fail == Expr("fail", NullVal, "", "", <<>>)

Obj(items) == Expr("obj", NullVal, "", "", items)

Absent == Expr("absent", NullVal, "", "", <<>>)

(***************************************************************************)
(* Errors.                                                                 *)
(***************************************************************************)
NoErr == <<>>

E(kind) == <<kind>>

\* errors.E(kind, err): the error of that kind that wraps err
Wrap(kind, err) == <<kind>> \o err

ErrEval == "eval"

ErrParsing == "parsing generate_hcl block"

ErrContentEval == "evaluating content"

ErrConditionEval == "evaluating condition attribute"

ErrInheritEval == "evaluating inherit attribute"

ErrInvalidConditionType == "invalid condition type"

ErrInvalidInheritType == "invalid inherit type"

ErrInvalidDynamicIterator == "invalid tm_dynamic.iterator"

ErrInvalidDynamicLabels == "invalid tm_dynamic.labels"

ErrDynamicAttrsEval == "evaluating tm_dynamic.attributes"

ErrDynamicConditionEval == "evaluating tm_dynamic.condition"

ErrDynamicAttrsConflict == "tm_dynamic.attributes and tm_dynamic.content have conflicting fields"

ErrLetsEval == "evaluating lets"

ErrAssertEval == "evaluating assert"

(***************************************************************************)
(* The evaluation context (eval.Context): the bound namespaces, each a map *)
(* from attribute name to value, and the registered functions.             *)
(***************************************************************************)
\* a context is an object: id tells the objects apart, so that two variables that
\* hold the same id refer to the same context
NewContext(ns, funcs) == [id |-> 0, ns |-> ns, funcs |-> funcs]

\* Copy: a new object with the same namespaces and functions
Copy(ctx) == [id |-> ctx.id + 1, ns |-> ctx.ns, funcs |-> ctx.funcs]

SetNamespace(ctx, name, vals) == [ctx EXCEPT !.ns = [n \in (DOMAIN ctx.ns) \cup {name} |-> IF n = name THEN vals ELSE ctx.ns[n]]]

DeleteNamespace(ctx, name) == [ctx EXCEPT !.ns = [n \in (DOMAIN ctx.ns) \ {name} |-> ctx.ns[n]]]

SetFunction(ctx, name) == [ctx EXCEPT !.funcs = ctx.funcs \cup {name}]

HasNamespace(ctx, name) == name \in DOMAIN ctx.ns

Resolves(ctx, expr) == HasNamespace(ctx, expr.ns) /\ expr.attr \in DOMAIN ctx.ns[expr.ns]

\* Eval of a scalar expression: fails on an unbound namespace or attribute
EvalScalar(ctx, expr) ==
    CASE expr.e = "lit" -> [val |-> expr.val, err |-> NoErr]
      [] expr.e = "ref" -> IF Resolves(ctx, expr)
                             THEN [val |-> ctx.ns[expr.ns][expr.attr], err |-> NoErr]
                             ELSE [val |-> NullVal, err |-> E(ErrEval)]
      [] OTHER -> [val |-> NullVal, err |-> E(ErrEval)]

\* Eval of an object constructor: every key and value must evaluate
EvalObj(ctx, expr) ==
    LET ks == [i \in 1..Len(expr.items) |-> EvalScalar(ctx, expr.items[i].key)]
        vs == [i \in 1..Len(expr.items) |-> EvalScalar(ctx, expr.items[i].value)]
    IN  IF \E i \in 1..Len(expr.items) : ks[i].err # NoErr \/ vs[i].err # NoErr
          THEN [val |-> NullVal, err |-> E(ErrEval)]
          ELSE [val |-> MapVal([i \in 1..Len(expr.items) |-> [k |-> ks[i].val, v |-> vs[i].val]]), err |-> NoErr]

\* Context.Eval: full evaluation
Eval(ctx, expr) == IF expr.e = "obj" THEN EvalObj(ctx, expr) ELSE EvalScalar(ctx, expr)

\* PartialEval of a scalar: a reference to an unbound namespace is returned unchanged
PartialEvalScalar(ctx, expr) ==
    CASE expr.e = "lit" -> [expr |-> expr, err |-> NoErr]
      [] expr.e = "ref" -> IF ~HasNamespace(ctx, expr.ns)
                             THEN [expr |-> expr, err |-> NoErr]
                             ELSE IF expr.attr \in DOMAIN ctx.ns[expr.ns]
                                    THEN [expr |-> Lit(ctx.ns[expr.ns][expr.attr]), err |-> NoErr]
                                    ELSE [expr |-> expr, err |-> E(ErrEval)]
      [] OTHER -> [expr |-> expr, err |-> E(ErrEval)]

\* PartialEval of an object constructor: the constructor with every key and value
\* partially evaluated
PartialEvalObj(ctx, expr) ==
    LET n == Len(expr.items)
        ks == [i \in 1..n |-> PartialEvalScalar(ctx, expr.items[i].key)]
        vs == [i \in 1..n |-> PartialEvalScalar(ctx, expr.items[i].value)]
    IN  IF \E i \in 1..n : ks[i].err # NoErr \/ vs[i].err # NoErr
          THEN [expr |-> expr, err |-> E(ErrEval)]
          ELSE [expr |-> Obj([i \in 1..n |-> [key |-> ks[i].expr, value |-> vs[i].expr]]), err |-> NoErr]

\* Context.PartialEval
PartialEval(ctx, expr) == IF expr.e = "obj" THEN PartialEvalObj(ctx, expr) ELSE PartialEvalScalar(ctx, expr)

(***************************************************************************)
(* Syntax trees.  A source body (hclsyntax.Body) has a map of attributes   *)
(* and a sequence of blocks; a destination body (hclwrite.Body) keeps its  *)
(* attributes in the order they were set.                                  *)
(***************************************************************************)
NoAttrs == [n \in {} |-> Absent]

SrcBody(attrs, blocks) == [Attributes |-> attrs, Blocks |-> blocks]

Block(type, labels, body) == [Type |-> type, Labels |-> labels, Body |-> body]

EmptyBody == [attrs |-> <<>>, blocks |-> <<>>]

\* every attribute name of the model, in ascending lexical order
NameOrder == <<"1x", "a", "attributes", "b", "c", "condition", "for_each", "iterator", "labels", "other">>

\* ast.SortRawAttributes: the attributes of the map in ascending name order
SortRawAttributes(attrs) ==
    LET names == SelectSeq(NameOrder, LAMBDA n : n \in DOMAIN attrs)
    IN  [i \in 1..Len(names) |-> [Name |-> names[i], Expr |-> attrs[names[i]]]]

\* ast.TokensForExpression: the tokens that write the expression
TokensForExpression(expr) == expr

\* ast.TokensForValue: the tokens of the literal that writes the value
TokensForValue(val) == Lit(val)

\* hclwrite.Body.SetAttributeRaw: replaces the attribute of that name or appends it
SetAttributeRaw(body, name, tokens) ==
    IF \E i \in 1..Len(body.attrs) : body.attrs[i].name = name
      THEN [body EXCEPT !.attrs = [i \in 1..Len(body.attrs) |->
                IF body.attrs[i].name = name THEN [name |-> name, tokens |-> tokens] ELSE body.attrs[i]]]
      ELSE [body EXCEPT !.attrs = Append(body.attrs, [name |-> name, tokens |-> tokens])]

\* hclwrite.Body.AppendNewBlock / AppendBlock
AppendNewBlock(body, type, labels, blockBody) ==
    [body EXCEPT !.blocks = Append(body.blocks, [Type |-> type, Labels |-> labels, Body |-> blockBody])]

\* hclsyntax.ValidIdentifier
ValidIdentifier(name) == name \notin {"", "1x"}

\* hcl.ValueAsStringList: a list whose elements are all strings
ValueAsStringList(val) ==
    IF val.t = "list" /\ \A i \in 1..Len(val.l) : val.l[i].v.t = "string"
      THEN [list |-> [i \in 1..Len(val.l) |-> val.l[i].v.s], err |-> NoErr]
      ELSE [list |-> <<>>, err |-> E(ErrEval)]

\* hcl.AbsTraversalForExpr of tm_dynamic.iterator: a bare variable name is the
\* reference with no attribute; anything else is no single-name traversal
IteratorTraversal(expr) ==
    IF expr.e = "ref" /\ expr.attr = ""
      THEN [RootName |-> expr.ns, ok |-> TRUE]
      ELSE [RootName |-> "", ok |-> FALSE]

\* the result of a copy step: the destination so far, the context, the error
Res(dest, ctx, err, src) == [dest |-> dest, ctx |-> ctx, err |-> err, src |-> src]

(***************************************************************************)
(* copyBody, appendBlock and the tm_dynamic expansion.  The Go functions   *)
(* mutate the destination body and the evaluator in place; here each       *)
(* returns the destination, the context and the error it leaves behind.    *)
(***************************************************************************)
RECURSIVE CopyBody(_, _, _)
RECURSIVE CopyAttrs(_, _, _, _, _)
RECURSIVE CopyBlocks(_, _, _, _)
RECURSIVE AppendBlock(_, _, _)
RECURSIVE AppendDynamicBlocks(_, _, _)
RECURSIVE AppendDynamicBlock(_, _, _, _, _)
RECURSIVE ForEachElement(_, _, _, _, _, _, _, _)
RECURSIVE SetBodyAttributes(_, _, _)

\* a nil *hclsyntax.Block
NilBlock == Block("<nil>", <<>>, SrcBody(NoAttrs, <<>>))

IsNilBlock(b) == b.Type = "<nil>"

DynAttrNames == {"attributes", "for_each", "labels", "iterator", "condition"}

DynAttr(block, name) == IF name \in DOMAIN block.Body.Attributes THEN block.Body.Attributes[name] ELSE Absent

\* getDynamicBlockAttrs: the control attributes, and one error per unsupported name
GetDynamicBlockAttrs(block) ==
    [attrs |-> [attributes |-> DynAttr(block, "attributes"),
                iterator |-> DynAttr(block, "iterator"),
                foreach |-> DynAttr(block, "for_each"),
                labels |-> DynAttr(block, "labels"),
                condition |-> DynAttr(block, "condition")],
     err |-> [i \in 1..Cardinality((DOMAIN block.Body.Attributes) \ DynAttrNames) |-> ErrParsing]]

\* the number of errors of getContentBlock: one per block that is not a content
\* block and one per content block after the first
ContentBlockErrors(contents, others) == Len(others) + (IF contents > 1 THEN contents - 1 ELSE 0)

\* getContentBlock: the content block, or nil when there is none or any error
GetContentBlock(blocks) ==
    LET contents == SelectSeq(blocks, LAMBDA b : b.Type = "content")
        nerrs == ContentBlockErrors(Len(contents), SelectSeq(blocks, LAMBDA b : b.Type # "content"))
    IN  IF nerrs > 0
          THEN [block |-> NilBlock, err |-> [i \in 1..nerrs |-> ErrParsing]]
          ELSE [block |-> IF Len(contents) = 1 THEN contents[1] ELSE NilBlock, err |-> NoErr]

\* the destination block appended to target with the outcome r of copying the body
\* of the source block into it
WithBlock(target, type, labels, block, r) ==
    Res(AppendNewBlock(target, type, labels, r.dest), r.ctx, r.err, [block EXCEPT !.Body = r.src])

\* expr := &ast.CloneExpression{Expression: attr.Expr}: what the source expression
\* is after the partial evaluation gave newexpr
Persisted_InPlace(expr, newexpr) == newexpr

Persisted(expr, newexpr) == expr

\* errors.E(err, attr.Expr.Range()): the range of an attribute's expression is told
\* by the attribute's name
AtRange_None(err, attr) == err

AtRange(err, attr) == err \o <<attr.Name>>

\* copyBody's attribute loop after the partial evaluation r of attribute i
CopyAttrsNext(dest, src, attrs, i, ctx, r) ==
    IF r.err # NoErr THEN Res(dest, ctx, AtRange(r.err, attrs[i]), src)
    ELSE CopyAttrs(SetAttributeRaw(dest, attrs[i].Name, TokensForExpression(r.expr)),
                   [src EXCEPT !.Attributes[attrs[i].Name] = Persisted(attrs[i].Expr, r.expr)],
                   attrs, i + 1, ctx)

\* copyBody's attribute loop from position i of the sorted attributes
CopyAttrs(dest, src, attrs, i, ctx) ==
    IF i > Len(attrs) THEN Res(dest, ctx, NoErr, src)
    ELSE CopyAttrsNext(dest, src, attrs, i, ctx, PartialEval(ctx, attrs[i].Expr))

\* copyBody's block loop after the outcome r of appendBlock on block i
CopyBlocksNext(r, src, i) ==
    IF r.err # NoErr THEN Res(r.dest, r.ctx, r.err, [src EXCEPT !.Blocks[i] = r.src])
    ELSE CopyBlocks(r.dest, [src EXCEPT !.Blocks[i] = r.src], i + 1, r.ctx)

\* copyBody's block loop from position i
CopyBlocks(dest, src, i, ctx) ==
    IF i > Len(src.Blocks) THEN Res(dest, ctx, NoErr, src)
    ELSE CopyBlocksNext(AppendBlock(dest, src.Blocks[i], ctx), src, i)

\* copyBody after its attribute loop ended with a
CopyBodyBlocks(a) ==
    IF a.err # NoErr THEN a
    ELSE CopyBlocks(a.dest, a.src, 1, a.ctx)

\* copyBody: the result holds the source body as the copy left it
CopyBody(dest, src, ctx) == CopyBodyBlocks(CopyAttrs(dest, src, SortRawAttributes(src.Attributes), 1, ctx))

\* if block.Type == "tm_dynamic"
IsMetaBlock_Never(block) == FALSE

IsMetaBlock(block) == block.Type = "tm_dynamic"

AppendBlock(target, block, ctx) ==
    IF IsMetaBlock(block) THEN AppendDynamicBlocks(target, block, ctx)
    ELSE WithBlock(target, block.Type, block.Labels, block, CopyBody(EmptyBody, block.Body, ctx))

\* setBodyAttributes from position i: stops at the first invalid identifier
SetBodyAttributes(body, tmAttrs, i) ==
    IF i > Len(tmAttrs) THEN [body |-> body, err |-> NoErr]
    ELSE IF ~ValidIdentifier(tmAttrs[i].name) THEN [body |-> body, err |-> E(ErrParsing)]
    ELSE SetBodyAttributes(SetAttributeRaw(body, tmAttrs[i].name, tmAttrs[i].tokens), tmAttrs, i + 1)

\* the error kind of item i of an object constructor, "" when it has none
ItemError(key, val) ==
    IF key.err # NoErr THEN ErrDynamicAttrsEval
    ELSE IF key.val.t # "string" THEN ErrParsing
    ELSE IF val.err # NoErr THEN ErrDynamicAttrsEval
    ELSE ""

\* the tmAttribute list of an object constructor, given its evaluated keys and values
ObjTmAttrs(n, key, val) ==
    IF \E i \in 1..n : ItemError(key[i], val[i]) # ""
      THEN [list |-> <<>>,
            err |-> E(ItemError(key[CHOOSE i \in 1..n : ItemError(key[i], val[i]) # "" /\ \A j \in 1..(i - 1) : ItemError(key[j], val[j]) = ""],
                                val[CHOOSE i \in 1..n : ItemError(key[i], val[i]) # "" /\ \A j \in 1..(i - 1) : ItemError(key[j], val[j]) = ""]))]
      ELSE [list |-> [i \in 1..n |-> [name |-> key[i].val.s, tokens |-> TokensForExpression(val[i].expr)]],
            err |-> NoErr]

\* the tmAttribute list of the partially evaluated tm_dynamic.attributes expression
TmAttrs(ctx, attrsExpr) ==
    CASE attrsExpr.e = "lit" ->
           IF IsNull(attrsExpr.val) THEN [list |-> <<>>, err |-> E(ErrParsing)]
           ELSE IF attrsExpr.val.t # "map" THEN [list |-> <<>>, err |-> E(ErrParsing)]
           ELSE [list |-> [i \in 1..Len(attrsExpr.val.l) |->
                            [name |-> attrsExpr.val.l[i].k.s, tokens |-> TokensForValue(attrsExpr.val.l[i].v)]],
                 err |-> NoErr]
      [] attrsExpr.e = "obj" ->
           ObjTmAttrs(Len(attrsExpr.items),
                      [i \in 1..Len(attrsExpr.items) |-> Eval(ctx, attrsExpr.items[i].key)],
                      [i \in 1..Len(attrsExpr.items) |-> PartialEval(ctx, attrsExpr.items[i].value)])
      [] OTHER -> [list |-> <<>>, err |-> E(ErrParsing)]

\* the outcome of setting the attributes tm of the new block
SetDynamicAttributes(tm, set) ==
    IF tm.err # NoErr THEN [body |-> EmptyBody, names |-> {}, err |-> tm.err]
    ELSE IF set.err # NoErr THEN [body |-> set.body, names |-> {}, err |-> set.err]
    ELSE [body |-> set.body, names |-> {tm.list[i].name : i \in 1..Len(tm.list)}, err |-> NoErr]

\* the attributes step of appendDynamicBlock after the partial evaluation: the body
\* of the new block, the attribute names that were set, the error
DynamicAttributesOf(ctx, partial) ==
    IF partial.err # NoErr THEN [body |-> EmptyBody, names |-> {}, err |-> E(ErrDynamicAttrsEval)]
    ELSE SetDynamicAttributes(TmAttrs(ctx, partial.expr), SetBodyAttributes(EmptyBody, TmAttrs(ctx, partial.expr).list, 1))

DynamicAttributes(ctx, attrs) ==
    IF attrs.attributes.e = "absent" THEN [body |-> EmptyBody, names |-> {}, err |-> NoErr]
    ELSE DynamicAttributesOf(ctx, PartialEval(ctx, attrs.attributes))

\* the labels step of appendDynamicBlock after the evaluation of tm_dynamic.labels
DynamicLabelsOf(labelsVal) ==
    IF labelsVal.err # NoErr THEN [labels |-> <<>>, err |-> E(ErrInvalidDynamicLabels)]
    ELSE IF ValueAsStringList(labelsVal.val).err # NoErr THEN [labels |-> <<>>, err |-> E(ErrInvalidDynamicLabels)]
    ELSE [labels |-> ValueAsStringList(labelsVal.val).list, err |-> NoErr]

DynamicLabels(ctx, attrs) ==
    IF attrs.labels.e = "absent" THEN [labels |-> <<>>, err |-> NoErr]
    ELSE DynamicLabelsOf(Eval(ctx, attrs.labels))

\* the names of the content block's top-level attributes that tm_dynamic.attributes set
ConflictingAttrs_None(attributeNames, contentBlock) == {}

ConflictingAttrs(attributeNames, contentBlock) == {n \in DOMAIN contentBlock.Body.Attributes : n \in attributeNames}

\* appendDynamicBlock after its labels step l and its attributes step a
AppendDynamicBlockWith(destination, ctx, genBlockType, contentBlock, l, a) ==
    IF l.err # NoErr THEN Res(destination, ctx, l.err, contentBlock)
    ELSE IF a.err # NoErr THEN Res(AppendNewBlock(destination, genBlockType, l.labels, a.body), ctx, a.err, contentBlock)
    ELSE IF IsNilBlock(contentBlock)
           THEN Res(AppendNewBlock(destination, genBlockType, l.labels, a.body), ctx, NoErr, contentBlock)
    ELSE IF ConflictingAttrs(a.names, contentBlock) # {}
           THEN Res(AppendNewBlock(destination, genBlockType, l.labels, a.body), ctx, E(ErrDynamicAttrsConflict), contentBlock)
    ELSE WithBlock(destination, genBlockType, l.labels, contentBlock, CopyBody(a.body, contentBlock.Body, ctx))

AppendDynamicBlock(destination, ctx, genBlockType, attrs, contentBlock) ==
    AppendDynamicBlockWith(destination, ctx, genBlockType, contentBlock, DynamicLabels(ctx, attrs), DynamicAttributes(ctx, attrs))

\* the {key, value} object bound under the iterator name for one element
LoopBinding_Swapped(key, value) == [n \in {"key", "value"} |-> IF n = "key" THEN value ELSE key]

LoopBinding(key, value) == [n \in {"key", "value"} |-> IF n = "key" THEN key ELSE value]

\* the loop of ForEachElement after the outcome r of the callback on element i
ForEachNext(r, elems, i, iterator, genBlockType, attrs, contentBlock) ==
    IF r.err # NoErr THEN r
    ELSE ForEachElement(r.dest, r.ctx, elems, i + 1, iterator, genBlockType, attrs, r.src)

\* foreach.ForEachElement with the callback of appendDynamicBlocks, from element i on
ForEachElement(target, ctx, elems, i, iterator, genBlockType, attrs, contentBlock) ==
    IF i > Len(elems) THEN Res(target, ctx, NoErr, contentBlock)
    ELSE ForEachNext(AppendDynamicBlock(target, SetNamespace(ctx, iterator, LoopBinding(elems[i].k, elems[i].v)),
                                        genBlockType, attrs, contentBlock),
                     elems, i, iterator, genBlockType, attrs, contentBlock)

\* whether an evaluated tm_dynamic.condition suppresses the expansion
GuardSuppresses_Never(cond) == FALSE

GuardSuppresses(cond) == ~True(cond)

\* the guard step after the evaluation of tm_dynamic.condition
GuardOf(cond) ==
    IF cond.err # NoErr THEN [suppressed |-> FALSE, err |-> E(ErrDynamicConditionEval)]
    ELSE IF cond.val.t # "bool" THEN [suppressed |-> FALSE, err |-> E(ErrDynamicConditionEval)]
    ELSE [suppressed |-> GuardSuppresses(cond.val), err |-> NoErr]

Guard(ctx, attrs) ==
    IF attrs.condition.e = "absent" THEN [suppressed |-> FALSE, err |-> NoErr]
    ELSE GuardOf(Eval(ctx, attrs.condition))

\* the for_each step after the evaluation of tm_dynamic.for_each
ForEachOf(fe) ==
    IF fe.err # NoErr THEN [val |-> NullVal, err |-> E(ErrParsing)]
    ELSE IF ~CanIterateElements(fe.val) THEN [val |-> NullVal, err |-> E(ErrParsing)]
    ELSE [val |-> fe.val, err |-> NoErr]

ForEach(ctx, attrs) ==
    IF attrs.foreach.e = "absent" THEN [val |-> NullVal, err |-> NoErr]
    ELSE ForEachOf(Eval(ctx, attrs.foreach))

\* the name of the loop variable: the generated block type unless iterator names one
IteratorName_AlwaysType(genBlockType, attrs) == [name |-> genBlockType, err |-> NoErr]

IteratorName(genBlockType, attrs) ==
    IF attrs.iterator.e = "absent" THEN [name |-> genBlockType, err |-> NoErr]
    ELSE IF ~IteratorTraversal(attrs.iterator).ok THEN [name |-> "", err |-> E(ErrInvalidDynamicIterator)]
    ELSE [name |-> IteratorTraversal(attrs.iterator).RootName, err |-> NoErr]

\* the context after the loop of an iterating expansion
AfterLoop_KeepBinding(ctx, iterator) == ctx

AfterLoop(ctx, iterator) == DeleteNamespace(ctx, iterator)

\* evaluator.DeleteNamespace(iterator); return tmDynamicErr
EndLoop(r, iterator) == Res(r.dest, AfterLoop(r.ctx, iterator), r.err, r.src)

\* the iterating expansion with loop variable it over the elements elems
Iterate(target, ctx, genBlockType, attrs, contentBlock, elems, it) ==
    IF it.err # NoErr THEN Res(target, ctx, it.err, contentBlock)
    ELSE EndLoop(ForEachElement(target, ctx, elems, 1, it.name, genBlockType, attrs, contentBlock), it.name)

\* if attrs.iterator != nil, for_each being null: an iterator without a collection
StrayIterator_Allowed(attrs) == FALSE

StrayIterator(attrs) == attrs.iterator.e # "absent"

\* appendDynamicBlocks after the for_each step fe
ExpandForEach(target, ctx, genBlockType, attrs, contentBlock, fe) ==
    IF fe.err # NoErr THEN Res(target, ctx, fe.err, contentBlock)
    ELSE IF IsNull(fe.val)
           THEN IF StrayIterator(attrs) THEN Res(target, ctx, E(ErrInvalidDynamicIterator), contentBlock)
                ELSE AppendDynamicBlock(target, ctx, genBlockType, attrs, contentBlock)
    ELSE Iterate(target, ctx, genBlockType, attrs, contentBlock, fe.val.l, IteratorName(genBlockType, attrs))

\* appendDynamicBlocks after the guard step g
ExpandGuarded(target, ctx, genBlockType, attrs, contentBlock, g) ==
    IF g.err # NoErr THEN Res(target, ctx, g.err, contentBlock)
    ELSE IF g.suppressed THEN Res(target, ctx, NoErr, contentBlock)
    ELSE ExpandForEach(target, ctx, genBlockType, attrs, contentBlock, ForEach(ctx, attrs))

\* appendDynamicBlocks of a block that passed validation
ExpandValid(target, ctx, genBlockType, attrs, contentBlock) ==
    ExpandGuarded(target, ctx, genBlockType, attrs, contentBlock, Guard(ctx, attrs))

\* the error that misses both attributes and content
MissingContentError(contentBlock, attrs) ==
    IF IsNilBlock(contentBlock) /\ attrs.attributes.e = "absent" THEN E(ErrParsing) ELSE NoErr

\* the structural violations of a tm_dynamic block, stopping at the first
DynamicBlockErrors_FirstOnly(dynblock) ==
    IF Len(dynblock.Labels) # 1 THEN E(ErrParsing)
    ELSE IF GetDynamicBlockAttrs(dynblock).err # NoErr THEN E(ErrParsing)
    ELSE IF GetContentBlock(dynblock.Body.Blocks).err # NoErr THEN E(ErrParsing)
    ELSE MissingContentError(GetContentBlock(dynblock.Body.Blocks).block, GetDynamicBlockAttrs(dynblock).attrs)

\* the structural violations of a tm_dynamic block, collected
DynamicBlockErrors(dynblock) ==
    (IF Len(dynblock.Labels) # 1 THEN E(ErrParsing) ELSE NoErr)
    \o GetDynamicBlockAttrs(dynblock).err
    \o GetContentBlock(dynblock.Body.Blocks).err
    \o MissingContentError(GetContentBlock(dynblock.Body.Blocks).block, GetDynamicBlockAttrs(dynblock).attrs)

\* the outcome r of the expansion, with the meta-block as the expansion left it
Expanded(dynblock, r) ==
    Res(r.dest, r.ctx, r.err, IF IsNilBlock(r.src) THEN dynblock ELSE [dynblock EXCEPT !.Body.Blocks = <<r.src>>])

AppendDynamicBlocks(target, dynblock, ctx) ==
    IF DynamicBlockErrors(dynblock) # NoErr THEN Res(target, ctx, DynamicBlockErrors(dynblock), dynblock)
    ELSE Expanded(dynblock,
                  ExpandValid(target, ctx, dynblock.Labels[1], GetDynamicBlockAttrs(dynblock).attrs,
                              GetContentBlock(dynblock.Body.Blocks).block))

(***************************************************************************)
(* Rendering.  The generated text is the sequence of the lines that write  *)
(* the destination tree; "" is the empty sequence.                         *)
(***************************************************************************)
RECURSIVE Bytes(_)
RECURSIVE BlocksBytes(_, _)

Line(kind, name, labels, tokens) == [kind |-> kind, name |-> name, labels |-> labels, tokens |-> tokens, formatted |-> FALSE]

BlocksBytes(blocks, i) ==
    IF i > Len(blocks) THEN <<>>
    ELSE <<Line("open", blocks[i].Type, blocks[i].Labels, Absent)>>
         \o Bytes(blocks[i].Body)
         \o <<Line("close", "", <<>>, Absent)>>
         \o BlocksBytes(blocks, i + 1)

\* hclwrite.File.Bytes of a file with this body
Bytes(body) ==
    [i \in 1..Len(body.attrs) |-> Line("attr", body.attrs[i].name, <<>>, body.attrs[i].tokens)]
    \o BlocksBytes(body.blocks, 1)

\* fmt.FormatMultiline: the same lines in canonical layout
FormatMultiline(text) == [i \in 1..Len(text) |-> [text[i] EXCEPT !.formatted = TRUE]]

(***************************************************************************)
(* Paths, labels, filters, lets and asserts.                               *)
(***************************************************************************)
\* project.Path.Dir: the parent directory; the root is its own parent
Dir(p) == IF p = <<>> THEN p ELSE SubSeq(p, 1, Len(p) - 1)

\* Go's "<" on strings: lexicographic on the code points
StrLess(a, b) ==
    \E i \in 1..Len(b) :
        /\ \A j \in 1..(i - 1) : j <= Len(a) /\ a[j] = b[j]
        /\ (i > Len(a) \/ a[i] < b[i])

\* a nil []glob.Glob
NilGlobs == [present |-> FALSE, globs |-> <<>>]

Globs(gs) == [present |-> TRUE, globs |-> gs]

\* hcl.MatchAnyGlob: a glob is the set of the paths it matches
MatchAnyGlob(globs, path) == \E i \in 1..Len(globs) : path \in globs[i]

\* the orders in which Go may range over the two glob-sets of a filter
GlobSetOrders == {<<"project path", "repository path">>, <<"repository path", "project path">>}

GlobSet(cond, n) == IF n = "project path" THEN cond.ProjectPaths ELSE cond.RepositoryPaths

\* the inner loop of Load over the glob-sets of one filter, in the given order:
\* leaves at the first present glob-set that does not match
FilterMatched(cond, path, order) ==
    LET miss(n) == GlobSet(cond, n).present /\ ~MatchAnyGlob(GlobSet(cond, n).globs, path)
    IN  IF miss(order[1]) THEN FALSE
        ELSE IF miss(order[2]) THEN FALSE
        ELSE TRUE

RECURSIVE FilterLoop(_, _, _, _, _)

\* the loop of Load over hclBlock.StackFilters from filter i on
FilterLoop(matchedAnyStackFilter, filters, i, path, orders) ==
    IF i > Len(filters) THEN matchedAnyStackFilter
    ELSE FilterLoop(matchedAnyStackFilter \/ FilterMatched(filters[i], path, orders[i]), filters, i + 1, path, orders)

MatchedAnyStackFilter_LastOnly(filters, path, orders) ==
    Len(filters) = 0 \/ FilterMatched(filters[Len(filters)], path, orders[Len(filters)])

MatchedAnyStackFilter(filters, path, orders) == FilterLoop(Len(filters) = 0, filters, 1, path, orders)

\* lets.Load: evaluates the lets and binds them as namespace "let"
LetsLoad(lets, ctx) ==
    LET r == [i \in 1..Len(lets) |-> Eval(ctx, lets[i].expr)]
        names == {lets[i].name : i \in 1..Len(lets)}
        valueOf(n) == r[CHOOSE i \in 1..Len(lets) : lets[i].name = n].val
    IN  IF \E i \in 1..Len(lets) : r[i].err # NoErr
          THEN [ctx |-> ctx, err |-> E(ErrLetsEval)]
          ELSE [ctx |-> SetNamespace(ctx, "let", [n \in names |-> valueOf(n)]), err |-> NoErr]

\* the zero value of config.Assert
NoAssert == [Assertion |-> FALSE, Warning |-> FALSE, Message |-> ""]

\* config.EvalAssert
EvalAssert(ctx, cfg) ==
    LET a == Eval(ctx, cfg.Assertion)
        w == Eval(ctx, cfg.Warning)
        m == Eval(ctx, cfg.Message)
        bad == \/ a.err # NoErr \/ a.val.t # "bool"
               \/ cfg.Warning.e # "absent" /\ (w.err # NoErr \/ w.val.t # "bool")
               \/ m.err # NoErr \/ m.val.t # "string"
    IN  IF bad THEN [assert |-> NoAssert, err |-> E(ErrAssertEval)]
        ELSE [assert |-> [Assertion |-> True(a.val),
                          Warning |-> IF cfg.Warning.e = "absent" THEN FALSE ELSE True(w.val),
                          Message |-> m.val.s],
              err |-> NoErr]

(***************************************************************************)
(* stack.Loader (src/stack/loader.go)                                      *)
(***************************************************************************)

\* the directories the loader is asked for, in the order filepath.Walk visits them
LoaderDirs == <<"/a", "/a/b", "/a/c">>

DirSet == {LoaderDirs[i] : i \in 1..Len(LoaderDirs)}

\* filepath.Base
Base(dir) == CASE dir = "/a" -> "a" [] dir = "/a/b" -> "b" [] OTHER -> "c"

\* the directories below dir, in walk order
Descendants(dir) == IF dir = "/a" THEN <<"/a/b", "/a/c">> ELSE <<>>

\* what a directory holds: no configuration file, one that does not parse, one
\* without a stack block, one with a stack block that has a name or has none
ConfigKinds == {"none", "bad", "nostack", "named", "anon"}

\* config.Exists
Exists(fs, dir) == fs[dir] # "none"

\* hcl.ParseFile: the error, and the stack block of the parsed configuration
ErrParseFile == "hcl.ParseFile"

ErrNoStack == "no stack found"

ErrNotLeafDir == "is not a leaf directory"

ErrNotLeafStack == "is not a leaf stack"

ParseFile(fs, dir) ==
    IF fs[dir] \in {"none", "bad"} THEN [err |-> E(ErrParseFile), Stack |-> "nil", Name |-> ""]
    ELSE IF fs[dir] = "nostack" THEN [err |-> NoErr, Stack |-> "nil", Name |-> ""]
    ELSE [err |-> NoErr, Stack |-> dir, Name |-> IF fs[dir] = "named" THEN "name" ELSE ""]

\* S{}
ZeroS == [name |-> "", Dir |-> "", block |-> "nil", changed |-> FALSE]

\* NewLoader: make(Loader)
NewLoader == [d \in {} |-> ZeroS]

\* s, ok := l[dir]
CacheHit_Never(l, dir) == FALSE

CacheHit(l, dir) == dir \in DOMAIN l

\* Loader.set
LoaderSet(l, dir, block) ==
    [d \in DOMAIN l \cup {dir} |->
        IF d = dir
          THEN [name |-> IF block.Name # "" THEN block.Name ELSE Base(dir), Dir |-> dir,
                block |-> block.Stack, changed |-> FALSE]
          ELSE l[d]]

\* what a call returns, the cache after it, and the directories it parsed
LoaderRes(l, s, found, err, parsed) == [l |-> l, s |-> s, found |-> found, err |-> err, parsed |-> parsed]

RECURSIVE TryLoad(_, _, _)
RECURSIVE Walk(_, _, _, _, _, _)

\* the walk function of IsLeafStack after TryLoad(path) returned r
WalkNext(r, fs, paths, i, parsed) ==
    IF r.err # NoErr THEN [l |-> r.l, ok |-> FALSE, err |-> r.err, parsed |-> parsed \cup r.parsed]
    ELSE Walk(r.l, fs, paths, i + 1, ~r.found, parsed \cup r.parsed)

\* filepath.Walk below dir from the i-th path on: once isValid is false every
\* directory is skipped
Walk(l, fs, paths, i, isValid, parsed) ==
    IF i > Len(paths) \/ ~isValid THEN [l |-> l, ok |-> isValid, err |-> NoErr, parsed |-> parsed]
    ELSE WalkNext(TryLoad(l, fs, paths[i]), fs, paths, i, parsed)

IsLeafStack(l, fs, dir) == Walk(l, fs, Descendants(dir), 1, TRUE, {dir})

\* the end of Load and TryLoad after IsLeafStack returned w
Loaded(w, dir, block, notLeaf) ==
    IF w.err # NoErr THEN LoaderRes(w.l, ZeroS, FALSE, w.err, w.parsed)
    ELSE IF ~w.ok THEN LoaderRes(w.l, ZeroS, FALSE, E(notLeaf), w.parsed)
    ELSE LoaderRes(LoaderSet(w.l, dir, block), LoaderSet(w.l, dir, block)[dir], TRUE, NoErr, w.parsed)

TryLoad(l, fs, dir) ==
    IF CacheHit(l, dir) THEN LoaderRes(l, l[dir], TRUE, NoErr, {})
    ELSE IF ~Exists(fs, dir) THEN LoaderRes(l, ZeroS, FALSE, NoErr, {})
    ELSE IF ParseFile(fs, dir).err # NoErr THEN LoaderRes(l, ZeroS, FALSE, ParseFile(fs, dir).err, {dir})
    ELSE IF ParseFile(fs, dir).Stack = "nil" THEN LoaderRes(l, ZeroS, FALSE, NoErr, {dir})
    ELSE Loaded(IsLeafStack(l, fs, dir), dir, ParseFile(fs, dir), ErrNotLeafStack)

Load(l, fs, dir) ==
    IF CacheHit(l, dir) THEN LoaderRes(l, l[dir], TRUE, NoErr, {})
    ELSE IF ParseFile(fs, dir).err # NoErr THEN LoaderRes(l, ZeroS, FALSE, ParseFile(fs, dir).err, {dir})
    ELSE IF ParseFile(fs, dir).Stack = "nil" THEN LoaderRes(l, ZeroS, FALSE, E(ErrNoStack), {dir})
    ELSE Loaded(IsLeafStack(l, fs, dir), dir, ParseFile(fs, dir), ErrNotLeafDir)

\* s.changed = true on the returned value
Changed(r) == IF r.found THEN [r EXCEPT !.s.changed = TRUE] ELSE r

LoadChanged(l, fs, dir) == Changed(Load(l, fs, dir))

TryLoadChanged(l, fs, dir) == Changed(TryLoad(l, fs, dir))

\* no call yet
NoCall == [op |-> "", dir |-> "", s |-> ZeroS, found |-> FALSE, err |-> NoErr, parsed |-> {}]

Call(op, dir, r) == [op |-> op, dir |-> dir, s |-> r.s, found |-> r.found, err |-> r.err, parsed |-> r.parsed]

\* a loader that is not in use
IdleLoader == [l |-> NewLoader, fs |-> [d \in DirSet |-> "none"], last |-> NoCall]

(***************************************************************************)
(* Load: the state of one run.                                             *)
(***************************************************************************)
VARIABLES
    tree,       \* root: the configuration of each directory (config.Root)
    stDir,      \* st.Dir, the directory of the stack
    evalctx,    \* the evaluation context the caller passes to Load
    pc,         \* the position of Load
    hclBlocks,  \* the blocks loadGenHCLBlocks returned
    idx,        \* the position of the loop over hclBlocks
    blockctx,   \* the per-block copy of the context (the inner evalctx)
    condition,  \* the local condition
    asserts,    \* the local asserts
    gen,        \* the body of the generated file of the block
    hcls,       \* the artifacts appended so far
    ret,        \* what Load returned
    steps,      \* history: the evaluation steps performed, by block origin
    loader      \* the stack loader: its cache, the directories it reads, its last call

vars == <<tree, stDir, evalctx, pc, hclBlocks, idx, blockctx, condition, asserts, gen, hcls, ret, steps, loader>>

GenHCLBlock(label, dir, range, filters, lets, cond, inherit, assertCfgs, content) ==
    [Label |-> label, Dir |-> dir, Range |-> range, StackFilters |-> filters, Lets |-> lets,
     Condition |-> cond, Inherit |-> inherit, Asserts |-> assertCfgs, Content |-> content]

\* CommentStyleFromConfig with no configured style: DefaultComment
CommentStyleFromConfig == "//"

\* the HCL value Load appends
HCL(label, origin, body, cond, evaluated) ==
    [magicCommentStyle |-> CommentStyleFromConfig, label |-> label, origin |-> origin,
     body |-> body, condition |-> cond, asserts |-> evaluated]

\* the artifact of a block that is skipped: only label, origin and condition are set
SkippedHCL_WithAsserts(block, cond) == HCL(block.Label, block.Range, <<>>, cond, <<NoAssert>>)

SkippedHCL(block, cond) == HCL(block.Label, block.Range, <<>>, cond, <<>>)

RECURSIVE LoadGenHCLBlocks(_, _)

\* loadGenHCLBlocks: the blocks of cfgdir, then those of its ancestors
LoadGenHCLBlocks_ParentFirst(root, cfgdir) ==
    LET res == IF cfgdir \in DOMAIN root /\ root[cfgdir].ok /\ ~root[cfgdir].empty THEN root[cfgdir].HCLs ELSE <<>>
    IN  IF Dir(cfgdir) = cfgdir THEN res
        ELSE LoadGenHCLBlocks(root, Dir(cfgdir)) \o res

LoadGenHCLBlocks(root, cfgdir) ==
    LET found == cfgdir \in DOMAIN root /\ root[cfgdir].ok
        res == IF found /\ ~root[cfgdir].empty THEN root[cfgdir].HCLs ELSE <<>>
        parentCfgDir == Dir(cfgdir)
    IN  IF parentCfgDir = cfgdir THEN res
        ELSE res \o LoadGenHCLBlocks(root, parentCfgDir)

RECURSIVE InsertSorted(_, _, _)

\* the place of x in a sorted slice: after every element that is not greater
InsertSorted(sorted, x, i) ==
    IF i > Len(sorted) THEN Append(sorted, x)
    ELSE IF StrLess(x.label, sorted[i].label)
           THEN SubSeq(sorted, 1, i - 1) \o <<x>> \o SubSeq(sorted, i, Len(sorted))
    ELSE InsertSorted(sorted, x, i + 1)

RECURSIVE SortFrom(_, _, _)

SortFrom(sorted, s, i) == IF i > Len(s) THEN sorted ELSE SortFrom(InsertSorted(sorted, s[i], 1), s, i + 1)

\* sort.SliceStable(hcls, by Label() ascending)
SortSliceStable_Unsorted(s) == s

SortSliceStable(s) == SortFrom(<<>>, s, 1)

NoReturn == [done |-> FALSE, isNil |-> TRUE, hcls |-> <<>>, err |-> NoErr]

\* return nil, err
ReturnErr_Partial(err) == [done |-> TRUE, isNil |-> FALSE, hcls |-> hcls, err |-> err]

ReturnErr(err) == [done |-> TRUE, isNil |-> TRUE, hcls |-> <<>>, err |-> err]

\* return hcls, nil
ReturnOk(list) == [done |-> TRUE, isNil |-> list = <<>>, hcls |-> list, err |-> NoErr]

Step(origin, step, n) == [origin |-> origin, step |-> step, n |-> n]

\* where the loop goes on "continue" and at the end of the loop body
Continue == IF idx < Len(hclBlocks) THEN "filter" ELSE "sort"

hclBlock == hclBlocks[idx]

NoCtx == Copy(NewContext(<<>>, {}))

\* evalctx := evalctx.Copy(): the context of the loop body
BlockContext_Shared(ctx) == ctx

BlockContext(ctx) == Copy(ctx)

\* the caller's context after the loop body left its context as inner: the same
\* when the two are different objects
CallerSees(caller, inner) == IF inner.id = caller.id THEN inner ELSE caller

\* whether the block is dropped by the inheritance gate
NotInherited_AnyDir(inherit, block) == ~inherit

NotInherited_SameDir(inherit, block) == ~inherit /\ block.Dir = stDir

NotInherited(inherit, block) == ~inherit /\ block.Dir # stDir

\* whether an evaluated assert fails the block
AssertFails_IgnoringWarning(assert) == ~assert.Assertion

AssertFails_Never(assert) == FALSE

AssertFails(assert) == ~assert.Assertion /\ ~assert.Warning

(***************************************************************************)
(* Load: one action per step of the loop body.                             *)
(***************************************************************************)
\* hclBlocks, err := loadGenHCLBlocks(root, st, st.Dir)
LoadBlocks ==
    /\ pc = "start"
    /\ hclBlocks' = LoadGenHCLBlocks(tree, stDir)
    /\ idx' = 1
    /\ pc' = IF Len(hclBlocks') = 0 THEN "sort" ELSE "filter"
    /\ UNCHANGED <<tree, stDir, evalctx, blockctx, condition, asserts, gen, hcls, ret, steps, loader>>

\* if !matchedAnyStackFilter: the block gets the non-applicable artifact
NotApplicable_Never(matchedAnyStackFilter) == FALSE

NotApplicable(matchedAnyStackFilter) == ~matchedAnyStackFilter

\* the stack filters; on a match the context is copied and "vendor" registered
MatchFilters ==
    /\ pc = "filter"
    /\ \E orders \in [1..Len(hclBlock.StackFilters) -> GlobSetOrders] :
        LET matchedAnyStackFilter == MatchedAnyStackFilter(hclBlock.StackFilters, stDir, orders)
        IN  IF NotApplicable(matchedAnyStackFilter)
              THEN /\ hcls' = Append(hcls, SkippedHCL(hclBlock, FALSE))
                   /\ pc' = Continue
                   /\ idx' = idx + 1
                   /\ UNCHANGED <<blockctx, evalctx>>
              ELSE /\ blockctx' = SetFunction(BlockContext(evalctx), "vendor")
                   /\ evalctx' = CallerSees(evalctx, blockctx')
                   /\ pc' = "lets"
                   /\ UNCHANGED <<hcls, idx>>
    /\ steps' = steps \cup {Step(hclBlock.Range, "filter", 0)}
    /\ UNCHANGED <<tree, stDir, hclBlocks, condition, asserts, gen, ret, loader>>

\* err := lets.Load(hclBlock.Lets, evalctx)
LoadLets ==
    /\ pc = "lets"
    /\ LET r == LetsLoad(hclBlock.Lets, blockctx)
       IN  IF r.err # NoErr
             THEN /\ ret' = ReturnErr(r.err)
                  /\ pc' = "done"
                  /\ UNCHANGED <<blockctx, evalctx>>
             ELSE /\ blockctx' = r.ctx
                  /\ evalctx' = CallerSees(evalctx, r.ctx)
                  /\ pc' = "condition"
                  /\ UNCHANGED ret
    /\ steps' = steps \cup {Step(hclBlock.Range, "lets", 0)}
    /\ UNCHANGED <<tree, stDir, hclBlocks, idx, condition, asserts, gen, hcls, loader>>

\* the condition attribute; a false condition appends the skipped artifact
EvalCondition ==
    /\ pc = "condition"
    /\ LET value == Eval(blockctx, hclBlock.Condition)
       IN  IF hclBlock.Condition.e = "absent"
             THEN /\ condition' = TRUE
                  /\ pc' = "inherit"
                  /\ UNCHANGED <<hcls, idx, ret, steps>>
           ELSE IF value.err # NoErr
             THEN /\ ret' = ReturnErr(Wrap(ErrConditionEval, value.err))
                  /\ pc' = "done"
                  /\ steps' = steps \cup {Step(hclBlock.Range, "condition", 0)}
                  /\ UNCHANGED <<condition, hcls, idx>>
           ELSE IF value.val.t # "bool"
             THEN /\ ret' = ReturnErr(E(ErrInvalidConditionType))
                  /\ pc' = "done"
                  /\ steps' = steps \cup {Step(hclBlock.Range, "condition", 0)}
                  /\ UNCHANGED <<condition, hcls, idx>>
           ELSE IF ~True(value.val)
             THEN /\ condition' = FALSE
                  /\ hcls' = Append(hcls, SkippedHCL(hclBlock, FALSE))
                  /\ pc' = Continue
                  /\ idx' = idx + 1
                  /\ steps' = steps \cup {Step(hclBlock.Range, "condition", 0)}
                  /\ UNCHANGED ret
           ELSE /\ condition' = TRUE
                /\ pc' = "inherit"
                /\ steps' = steps \cup {Step(hclBlock.Range, "condition", 0)}
                /\ UNCHANGED <<hcls, idx, ret>>
    /\ UNCHANGED <<tree, stDir, evalctx, hclBlocks, blockctx, asserts, gen, loader>>

\* the inherit attribute; a block that is not inherited is dropped
EvalInherit ==
    /\ pc = "inherit"
    /\ LET value == Eval(blockctx, hclBlock.Inherit)
           inherit == IF hclBlock.Inherit.e = "absent" THEN TRUE ELSE True(value.val)
       IN  IF hclBlock.Inherit.e # "absent" /\ value.err # NoErr
             THEN /\ ret' = ReturnErr(Wrap(ErrInheritEval, value.err))
                  /\ pc' = "done"
                  /\ UNCHANGED idx
           ELSE IF hclBlock.Inherit.e # "absent" /\ value.val.t # "bool"
             THEN /\ ret' = ReturnErr(E(ErrInvalidInheritType))
                  /\ pc' = "done"
                  /\ UNCHANGED idx
           ELSE IF NotInherited(inherit, hclBlock)
             THEN /\ pc' = Continue
                  /\ idx' = idx + 1
                  /\ UNCHANGED ret
           ELSE /\ pc' = "asserts"
                /\ UNCHANGED <<idx, ret>>
    /\ steps' = IF hclBlock.Inherit.e = "absent" THEN steps ELSE steps \cup {Step(hclBlock.Range, "inherit", 0)}
    /\ UNCHANGED <<tree, stDir, evalctx, hclBlocks, blockctx, condition, asserts, gen, hcls, loader>>

\* assertsErrs.Append(err); continue: the list of the errors of the asserts that
\* failed to evaluate
AssertsErrs_FirstOnly(failing) == IF failing = <<>> THEN <<>> ELSE <<failing[1][1]>>

AssertsErrs(failing) == [i \in 1..Len(failing) |-> failing[i][1]]

\* every assert is evaluated; the errors are collected
EvalAsserts ==
    /\ pc = "asserts"
    /\ LET n == Len(hclBlock.Asserts)
           r == [i \in 1..n |-> EvalAssert(blockctx, hclBlock.Asserts[i])]
           evaluated == [i \in 1..n |-> r[i].assert]
           failing == SelectSeq([i \in 1..n |-> r[i].err], LAMBDA e : e # NoErr)
           assertsErrs == AssertsErrs(failing)
           assertFailed == \E i \in 1..n : r[i].err = NoErr /\ AssertFails(r[i].assert)
       IN  /\ asserts' = evaluated
           /\ IF assertsErrs # NoErr
                THEN /\ ret' = ReturnErr(assertsErrs)
                     /\ pc' = "done"
                     /\ UNCHANGED <<hcls, idx>>
              ELSE IF assertFailed
                THEN /\ hcls' = Append(hcls, HCL(hclBlock.Label, hclBlock.Range, <<>>, condition, evaluated))
                     /\ pc' = Continue
                     /\ idx' = idx + 1
                     /\ UNCHANGED ret
              ELSE /\ pc' = "content"
                   /\ UNCHANGED <<hcls, idx, ret>>
           /\ steps' = steps \cup {Step(hclBlock.Range, "assert", i) : i \in 1..n}
    /\ UNCHANGED <<tree, stDir, evalctx, hclBlocks, blockctx, condition, gen, loader>>

\* the blocks a directory declares, the content of the one at Range origin being src:
\* hclBlocks and the tree hold the same content subtree
Declared(HCLs, origin, src) == [i \in 1..Len(HCLs) |-> IF HCLs[i].Range = origin THEN [HCLs[i] EXCEPT !.Content = src] ELSE HCLs[i]]

\* the end of the loop body given the outcome r of copyBody: the formatted body
\* is appended, or the error returned
ContentCopied(r) ==
    /\ gen' = r.dest
    /\ hclBlocks' = [hclBlocks EXCEPT ![idx].Content = r.src]
    /\ tree' = [tree EXCEPT ![hclBlock.Dir].HCLs = Declared(tree[hclBlock.Dir].HCLs, hclBlock.Range, r.src)]
    /\ blockctx' = r.ctx
    /\ evalctx' = CallerSees(evalctx, r.ctx)
    /\ IF r.err # NoErr
         THEN /\ ret' = ReturnErr(Wrap(ErrContentEval, r.err))
              /\ pc' = "done"
              /\ UNCHANGED <<hcls, idx>>
         ELSE /\ hcls' = Append(hcls, HCL(hclBlock.Label, hclBlock.Range, FormatMultiline(Bytes(r.dest)), condition, asserts))
              /\ pc' = Continue
              /\ idx' = idx + 1
              /\ UNCHANGED ret

\* hcl_expression is registered, the content copied, formatted and appended
EvalContent ==
    /\ pc = "content"
    /\ ContentCopied(CopyBody(EmptyBody, hclBlock.Content, SetFunction(blockctx, "hcl_expression")))
    /\ steps' = steps \cup {Step(hclBlock.Range, "content", 0)}
    /\ UNCHANGED <<stDir, condition, asserts, loader>>

\* sort.SliceStable and return hcls, nil
SortAndReturn ==
    /\ pc = "sort"
    /\ ret' = ReturnOk(SortSliceStable(hcls))
    /\ pc' = "done"
    /\ UNCHANGED <<tree, stDir, evalctx, hclBlocks, idx, blockctx, condition, asserts, gen, hcls, steps, loader>>

Next ==
    \/ LoadBlocks
    \/ MatchFilters
    \/ LoadLets
    \/ EvalCondition
    \/ EvalInherit
    \/ EvalAsserts
    \/ EvalContent
    \/ SortAndReturn

(***************************************************************************)
(* The inputs of the model.                                                *)
(***************************************************************************)
\* the stack directory /a/b and its ancestors /a and /
StackDir == <<"a", "b">>

Chain == {<<>>, <<"a">>, <<"a", "b">>}

\* labels "a", "ab" and "b" as code points
LabelA == <<1>>

LabelAB == <<1, 2>>

LabelB == <<2>>

\* globs: one that matches the stack directory and one that does not
GlobHit == {StackDir}

GlobMiss == {<<"z">>}

FilterHit == [ProjectPaths |-> Globs(<<GlobHit>>), RepositoryPaths |-> NilGlobs]

FilterMiss == [ProjectPaths |-> Globs(<<GlobMiss>>), RepositoryPaths |-> NilGlobs]

\* the lists of at most n elements "x", "y", ... (the first n of ElemNames)
ElemNames == <<"x", "y", "z", "w">>

ListOf(n) == ListVal([i \in 1..n |-> StrVal(ElemNames[i])])

\* the context of the caller: the globals of the stack
CallerCtx ==
    NewContext([n \in {"global"} |->
                  [a \in {"t", "f", "n", "s", "list", "obj"} |->
                     CASE a = "t" -> BoolVal(TRUE)
                       [] a = "f" -> BoolVal(FALSE)
                       [] a = "n" -> NumVal(1)
                       [] a = "s" -> StrVal("x")
                       [] a = "list" -> ListOf(MaxElems)
                       [] OTHER -> MapVal(<<[k |-> StrVal("a"), v |-> NumVal(1)]>>)]],
               {})

AssertCfg(a, w, m) == [Assertion |-> a, Warning |-> w, Message |-> m]

AssertPass == AssertCfg(Ref("global", "t"), Absent, Lit(StrVal("ok")))

AssertWarn == AssertCfg(Lit(BoolVal(FALSE)), Lit(BoolVal(TRUE)), Lit(StrVal("warn")))

AssertFail == AssertCfg(Ref("global", "f"), Lit(BoolVal(FALSE)), Lit(StrVal("fail")))

AssertErr == AssertCfg(Fail, Absent, Lit(StrVal("err")))

Attrs1(n1, e1) == [n \in {n1} |-> e1]

Attrs2(n1, e1, n2, e2) == [n \in {n1, n2} |-> IF n = n1 THEN e1 ELSE e2]

\* the value of a field of a block, by the tag that names it
FiltersOf(tag) ==
    CASE tag = "none" -> <<>>
      [] tag = "second" -> <<FilterMiss, FilterHit>>
      [] OTHER -> <<FilterMiss>>

LetsOf(tag) ==
    CASE tag = "none" -> <<>>
      [] tag = "ok" -> <<[name |-> "c", expr |-> Ref("global", "t")]>>
      [] OTHER -> <<[name |-> "c", expr |-> Fail]>>

BoolExprOf(tag) ==
    CASE tag = "absent" -> Absent
      [] tag = "let" -> Ref("let", "c")
      [] tag = "true" -> Lit(BoolVal(TRUE))
      [] tag = "false" -> Lit(BoolVal(FALSE))
      [] tag = "type" -> Lit(NumVal(1))
      [] OTHER -> Fail

AssertsOf(tag) ==
    CASE tag = "none" -> <<>>
      [] tag = "passwarn" -> <<AssertPass, AssertWarn>>
      [] tag = "fail" -> <<AssertPass, AssertFail>>
      [] tag = "errfail" -> <<AssertErr, AssertFail, AssertErr>>
      [] OTHER -> <<AssertErr>>

ContentOf(tag) ==
    CASE tag = "lit" -> SrcBody(Attrs1("a", Lit(NumVal(1))), <<>>)
      [] tag = "let" -> SrcBody(Attrs2("a", Ref("let", "c"), "b", Ref("other", "x")),
                                <<Block("other", <<"l">>, SrcBody(Attrs1("c", Ref("global", "s")), <<>>))>>)
      [] tag = "nested" -> SrcBody(Attrs1("a", Ref("other", "x")),
                                   <<Block("other", <<"l">>, SrcBody(Attrs2("b", Ref("other", "y"), "c", Fail), <<>>))>>)
      [] OTHER -> SrcBody(Attrs2("a", Lit(NumVal(1)), "b", Fail), <<>>)

\* the fields in pipeline order, with for each the value that lets the block pass
\* when absent (plain) or present (rich), the failing value (poison) and the
\* values at which the pipeline may stop
FieldNames == <<"filters", "lets", "condition", "inherit", "asserts", "content">>

Plain == [filters |-> "none", lets |-> "none", condition |-> "absent", inherit |-> "absent", asserts |-> "none", content |-> "lit"]

Rich == [filters |-> "second", lets |-> "ok", condition |-> "let", inherit |-> "true", asserts |-> "passwarn", content |-> "let"]

Poison == [filters |-> "miss", lets |-> "err", condition |-> "err", inherit |-> "err", asserts |-> "err", content |-> "fail"]

NoInherit == [Plain EXCEPT !.inherit = "false"]

Stops ==
    [filters |-> {"miss"}, lets |-> {"err"}, condition |-> {"false", "err", "type"},
     inherit |-> {"false", "err", "type"}, asserts |-> {"errfail", "fail", "err"},
     content |-> {"lit", "let", "fail", "nested"}]

\* the block shapes: up to field k as pre, field k one of its stops, after it as post
Shapes ==
    {[f \in DOMAIN Plain |->
        LET j == CHOOSE i \in 1..6 : FieldNames[i] = f
        IN  IF j < k THEN pre[f] ELSE IF j = k THEN stop ELSE post[f]] :
     <<k, pre, post, stop>> \in
        {q \in (1..6) \X {Plain, Rich} \X {Plain, Poison, NoInherit} \X {"miss", "err", "false", "type", "errfail", "fail", "lit", "let", "nested"} :
            q[4] \in Stops[FieldNames[q[1]]]}}

MkBlock(shape, label, dir, range) ==
    GenHCLBlock(label, dir, range, FiltersOf(shape.filters), LetsOf(shape.lets), BoolExprOf(shape.condition),
                BoolExprOf(shape.inherit), AssertsOf(shape.asserts), ContentOf(shape.content))

\* the declarations a run may focus on, and the ones that accompany them
FocusDecls == {[shape |-> sh, label |-> l, dir |-> d] : sh \in Shapes, l \in {LabelA, LabelAB}, d \in Chain}

Companion(stops, pre, label, dir) ==
    [shape |-> [f \in DOMAIN Plain |-> IF f \in DOMAIN stops THEN stops[f] ELSE pre[f]], label |-> label, dir |-> dir]

CompanionDecls ==
    << Companion([content |-> "lit"], Plain, LabelB, StackDir),
       Companion([content |-> "let"], Rich, LabelA, <<"a">>),
       Companion([condition |-> "false"], Plain, LabelAB, StackDir),
       Companion([filters |-> "miss"], Plain, LabelA, <<>>),
       Companion([content |-> "fail"], Plain, LabelA, StackDir),
       Companion([asserts |-> "fail"], Rich, LabelB, <<"a">>) >>

\* the companions of a list of n declarations: consecutive ones, from companion start on
Companions(n, start) == [i \in 1..n |-> CompanionDecls[((start + i - 2) % Len(CompanionDecls)) + 1]]

\* a declaration list: the focus declaration fd at position at among the companions rest
DeclList(n, fd, at, rest) == [i \in 1..n |-> IF i = at THEN fd ELSE rest[i]]

\* the configuration tree in which each block is declared in its directory; a
\* directory without blocks has an empty configuration (the root), a configuration
\* without generate_hcl (the stack) or none
TreeOfBlocks(blocks) ==
    [d \in Chain |->
       IF SelectSeq(blocks, LAMBDA b : b.Dir = d) # <<>>
         THEN [ok |-> TRUE, empty |-> FALSE, HCLs |-> SelectSeq(blocks, LAMBDA b : b.Dir = d)]
       ELSE IF d = <<>> THEN [ok |-> TRUE, empty |-> TRUE, HCLs |-> <<>>]
       ELSE IF d = StackDir THEN [ok |-> TRUE, empty |-> FALSE, HCLs |-> <<>>]
       ELSE [ok |-> FALSE, empty |-> TRUE, HCLs |-> <<>>]]

\* the configuration tree that declares decls[i], with Range i, in directory decls[i].dir
TreeOf(decls) == TreeOfBlocks([i \in 1..Len(decls) |-> MkBlock(decls[i].shape, decls[i].label, decls[i].dir, i)])

RunAt(root, dir) ==
    /\ tree = root
    /\ stDir = dir
    /\ evalctx = CallerCtx
    /\ pc = "start"
    /\ hclBlocks = <<>>
    /\ idx = 0
    /\ blockctx = NoCtx
    /\ condition = TRUE
    /\ asserts = <<>>
    /\ gen = EmptyBody
    /\ hcls = <<>>
    /\ ret = NoReturn
    /\ steps = {}

InitRunAt(root, dir) == RunAt(root, dir) /\ loader = IdleLoader

InitRun(root) == InitRunAt(root, StackDir)

Init ==
    \E n \in 1..MaxBlocks, fd \in FocusDecls :
        \E at \in 1..n, start \in 1..Len(CompanionDecls) :
            InitRun(TreeOf(DeclList(n, fd, at, Companions(n, start))))

Spec == Init /\ [][Next]_vars

(***************************************************************************)
(* The filter matcher on every filter list of at most MaxFilters filters.  *)
(***************************************************************************)
GlobLists == {NilGlobs, Globs(<<>>), Globs(<<GlobHit>>), Globs(<<GlobMiss>>), Globs(<<GlobMiss, GlobHit>>)}

Filters == [ProjectPaths : GlobLists, RepositoryPaths : GlobLists]

FilterLists == UNION {[1..n -> Filters] : n \in 0..MaxFilters}

InitMatch ==
    \E fs \in FilterLists :
        InitRun(TreeOfBlocks(<<GenHCLBlock(LabelA, StackDir, 1, fs, <<>>, Absent, Absent, <<>>, ContentOf("lit"))>>))

SpecMatch == InitMatch /\ [][Next]_vars

(***************************************************************************)
(* The tm_dynamic expansion on the meta-blocks built from every choice of  *)
(* for_each, iterator, condition, labels, attributes and content.  The     *)
(* meta-block "blk" is the first block of the content of the only          *)
(* generate_hcl block; a block "sib" follows it.                           *)
(***************************************************************************)
Item(k, v) == [key |-> k, value |-> v]

Pair(k, v) == [k |-> StrVal(k), v |-> v]

ForEachChoices ==
    {Absent, Lit(MapVal(<<Pair("a", StrVal("x")), Pair("b", StrVal("y"))>>)), Lit(NullVal), Lit(NumVal(1)), Fail}
    \cup {Lit(ListOf(n)) : n \in 0..MaxElems}

IteratorChoices == {Absent, Ref("it", ""), Ref("global", ""), Ref("it", "key")}

ConditionChoices == {Absent, Ref("global", "t"), Ref("global", "f"), Lit(NumVal(1)), Fail}

LabelsChoices == {Absent, Lit(ListVal(<<StrVal("l")>>)), Lit(NumVal(1))}

AttributesChoices ==
    {Absent,
     Obj(<<Item(Lit(StrVal("a")), Lit(NumVal(1)))>>),
     Obj(<<Item(Lit(StrVal("c")), Ref("blk", "value")), Item(Lit(StrVal("1x")), Lit(NumVal(1)))>>),
     Ref("global", "obj"),
     Lit(NullVal),
     Obj(<<Item(Lit(StrVal("b")), Fail)>>),
     Obj(<<Item(Ref("it", "key"), Ref("it", "value"))>>)}

InnerDynamic ==
    Block("tm_dynamic", <<"blk">>,
          SrcBody(Attrs1("for_each", Lit(ListOf(1))),
                  <<Block("content", <<>>, SrcBody(Attrs1("c", Ref("blk", "value")), <<>>))>>))

\* a meta-block whose label, the type of the blocks it generates, is tm_dynamic
SelfNamedDynamic ==
    Block("tm_dynamic", <<"tm_dynamic">>,
          SrcBody(NoAttrs, <<Block("content", <<>>, SrcBody(Attrs1("c", Lit(NumVal(1))), <<>>))>>))

ContentChoices ==
    {NilBlock,
     Block("content", <<>>, SrcBody(Attrs2("a", Ref("blk", "value"), "b", Ref("it", "key")), <<>>)),
     Block("content", <<>>, SrcBody(Attrs1("a", Lit(NumVal(1))), <<>>)),
     Block("content", <<>>, SrcBody(Attrs1("b", Ref("it", "value")),
                                    <<Block("inner", <<"l">>, SrcBody(Attrs1("c", Ref("blk", "key")), <<>>))>>)),
     Block("content", <<>>, SrcBody(NoAttrs,
                                    <<InnerDynamic, Block("after", <<>>, SrcBody(Attrs1("c", Ref("blk", "value")), <<>>))>>)),
     Block("content", <<>>, SrcBody(Attrs2("b", Ref("blk", "key"), "c", Fail), <<>>)),
     Block("content", <<>>, SrcBody(NoAttrs, <<SelfNamedDynamic>>))}

\* the attribute map of a meta-block: the control attributes that are present
DynAttrMap(fe, it, cond, labels, attributes) ==
    LET present == {n \in DynAttrNames :
                       CASE n = "for_each" -> fe.e # "absent"
                         [] n = "iterator" -> it.e # "absent"
                         [] n = "condition" -> cond.e # "absent"
                         [] n = "labels" -> labels.e # "absent"
                         [] OTHER -> attributes.e # "absent"}
    IN  [n \in present |->
           CASE n = "for_each" -> fe
             [] n = "iterator" -> it
             [] n = "condition" -> cond
             [] n = "labels" -> labels
             [] OTHER -> attributes]

DynamicBlock(fe, it, cond, labels, attributes, content) ==
    Block("tm_dynamic", <<"blk">>,
          SrcBody(DynAttrMap(fe, it, cond, labels, attributes), IF IsNilBlock(content) THEN <<>> ELSE <<content>>))

Sibling == Block("sib", <<>>, SrcBody(Attrs2("b", Ref("it", "key"), "c", Ref("blk", "value")), <<>>))

DynamicBlocks ==
    {DynamicBlock(fe, it, cond, labels, attributes, content) :
        fe \in ForEachChoices, it \in IteratorChoices, cond \in ConditionChoices,
        labels \in LabelsChoices, attributes \in AttributesChoices, content \in ContentChoices}

InitDyn ==
    \E dyn \in DynamicBlocks :
        InitRun(TreeOfBlocks(<<GenHCLBlock(LabelA, StackDir, 1, <<>>, <<>>, Absent, Absent, <<>>,
                                           SrcBody(NoAttrs, <<dyn, Sibling>>))>>))

SpecDyn == InitDyn /\ [][Next]_vars

(***************************************************************************)
(* The discovery of the blocks on every configuration tree over the        *)
(* directories /, /a, /a/b and /a/c, from every start directory.  A        *)
(* directory has no configuration, an empty one, or one that declares at   *)
(* most MaxBlocks blocks.                                                   *)
(***************************************************************************)
TreeDirs == <<<<>>, <<"a">>, <<"a", "b">>, <<"a", "c">>>>

DirIndex(d) == CHOOSE i \in 1..Len(TreeDirs) : TreeDirs[i] = d

\* block i of directory d: its Range tells the blocks apart
TreeBlock(d, i) ==
    GenHCLBlock(LabelA, d, (DirIndex(d) - 1) * (MaxBlocks + 1) + i, <<>>, <<>>, Absent, Absent, <<>>, ContentOf("lit"))

NoConfig == [ok |-> FALSE, empty |-> TRUE, HCLs |-> <<>>]

EmptyConfig == [ok |-> TRUE, empty |-> TRUE, HCLs |-> <<>>]

ConfigOf(d, n) == [ok |-> TRUE, empty |-> FALSE, HCLs |-> [i \in 1..n |-> TreeBlock(d, i)]]

\* the configurations of a directory: none, an empty one, one with c - 2 blocks
ConfigChoices == 0..(MaxBlocks + 2)

ConfigChoice(d, c) == IF c = 0 THEN NoConfig ELSE IF c = 1 THEN EmptyConfig ELSE ConfigOf(d, c - 2)

InitTree ==
    \E choice \in [1..Len(TreeDirs) -> ConfigChoices], start \in 1..Len(TreeDirs) :
        InitRunAt([d \in {TreeDirs[i] : i \in 1..Len(TreeDirs)} |-> ConfigChoice(d, choice[DirIndex(d)])], TreeDirs[start])

SpecTree == InitTree /\ [][Next]_vars

(***************************************************************************)
(* Load on a content whose tm_dynamic block may be malformed: any number   *)
(* of labels, unsupported attributes, nested blocks of any type.           *)
(***************************************************************************)

MetaLabels == {<<>>, <<"blk">>, <<"blk", "x">>}

UnsupportedNames == {"a", "other"}

NestedChoices ==
    {Block("content", <<>>, SrcBody(Attrs1("a", Lit(NumVal(1))), <<>>)),
     Block("content", <<>>, SrcBody(Attrs1("b", Lit(NumVal(2))), <<>>)),
     Block("other", <<>>, SrcBody(Attrs1("c", Lit(NumVal(3))), <<>>))}

\* a tm_dynamic block with the given labels, control attributes, attributes of
\* unsupported names and nested blocks
MetaBlock(labels, fe, cond, attributes, unsupported, nested) ==
    Block("tm_dynamic", labels,
          SrcBody([n \in DOMAIN DynAttrMap(fe, Absent, cond, Absent, attributes) \cup unsupported |->
                      IF n \in unsupported THEN Fail ELSE DynAttrMap(fe, Absent, cond, Absent, attributes)[n]],
                  nested))

InitMeta ==
    \E labels \in MetaLabels, fe \in {Absent, Lit(ListOf(1))}, cond \in {Absent, Fail},
       attributes \in {Absent, Obj(<<Item(Lit(StrVal("c")), Lit(NumVal(1)))>>)},
       unsupported \in SUBSET UnsupportedNames, n \in 0..MaxNested :
        \E nested \in [1..n -> NestedChoices] :
            InitRun(TreeOfBlocks(<<GenHCLBlock(LabelA, StackDir, 1, <<>>, <<>>, Absent, Absent, <<>>,
                                               SrcBody(NoAttrs, <<MetaBlock(labels, fe, cond, attributes, unsupported, nested),
                                                                  Sibling>>))>>))

SpecMeta == InitMeta /\ [][Next]_vars

(***************************************************************************)
(* The stack loader in use: calls on one Loader, between which the         *)
(* directories change.                                                     *)
(***************************************************************************)

run == <<tree, stDir, evalctx, pc, hclBlocks, idx, blockctx, condition, asserts, gen, hcls, ret, steps>>

\* the loader after the call op(dir) returned r
After(op, dir, r) == [loader EXCEPT !.l = r.l, !.last = Call(op, dir, r)]

CallLoad ==
    \E dir \in DirSet :
        /\ loader' = After("Load", dir, Load(loader.l, loader.fs, dir))
        /\ UNCHANGED run

CallTryLoad ==
    \E dir \in DirSet :
        /\ loader' = After("TryLoad", dir, TryLoad(loader.l, loader.fs, dir))
        /\ UNCHANGED run

CallLoadChanged ==
    \E dir \in DirSet :
        /\ loader' = After("LoadChanged", dir, LoadChanged(loader.l, loader.fs, dir))
        /\ UNCHANGED run

CallTryLoadChanged ==
    \E dir \in DirSet :
        /\ loader' = After("TryLoadChanged", dir, TryLoadChanged(loader.l, loader.fs, dir))
        /\ UNCHANGED run

\* the configuration of a directory is written, replaced or removed
WriteDir ==
    \E dir \in DirSet, kind \in ConfigKinds :
        /\ kind # loader.fs[dir]
        /\ loader' = [loader EXCEPT !.fs[dir] = kind, !.last = [NoCall EXCEPT !.op = "write", !.dir = dir]]
        /\ UNCHANGED run

NextLoader ==
    \/ CallLoad
    \/ CallTryLoad
    \/ CallLoadChanged
    \/ CallTryLoadChanged
    \/ WriteDir

InitLoader ==
    /\ RunAt(TreeOfBlocks(<<>>), StackDir)
    /\ \E fs \in [DirSet -> ConfigKinds] : loader = [l |-> NewLoader, fs |-> fs, last |-> NoCall]

SpecLoader == InitLoader /\ [][NextLoader]_vars

(***************************************************************************)
(* What the claims speak of.                                               *)
(***************************************************************************)
Success == ret.done /\ ret.err = NoErr

Failed == ret.done /\ ret.err # NoErr

Positions == 1..Len(hclBlocks)

\* the loop body of block k has ended without an error
Processed(k) == k < idx

Evaluated(b, step) == \E st \in steps : st.origin = b.Range /\ st.step = step

\* the artifacts of block b in a list
ArtifactsOf(list, b) == {i \in 1..Len(list) : list[i].origin = b.Range}

LabelsUnique == \A j, k \in Positions : hclBlocks[j].Label = hclBlocks[k].Label => j = k

\* the reference predicate of the filter decision
GlobSetsOf(f) == {f.ProjectPaths, f.RepositoryPaths}

MatchesRef(filters, path) ==
    \/ Len(filters) = 0
    \/ \E i \in 1..Len(filters) : \A gs \in GlobSetsOf(filters[i]) : gs.present => MatchAnyGlob(gs.globs, path)

\* the context in which the attributes of block b are evaluated
BlockCtxRef(b) == LetsLoad(b.Lets, SetFunction(Copy(evalctx), "vendor"))

EvaluatesTo(b, expr, bool) ==
    /\ expr.e # "absent"
    /\ Eval(BlockCtxRef(b).ctx, expr).err = NoErr
    /\ Eval(BlockCtxRef(b).ctx, expr).val = BoolVal(bool)

AbsentOrTrue(b, expr) == expr.e = "absent" \/ EvaluatesTo(b, expr, TRUE)

\* the evaluated asserts of block b
AssertsRef(b) == [i \in 1..Len(b.Asserts) |-> EvalAssert(BlockCtxRef(b).ctx, b.Asserts[i])]

AllAssertsEvaluate(b) == \A i \in 1..Len(b.Asserts) : AssertsRef(b)[i].err = NoErr

SomeAssertFailed(b) ==
    \E i \in 1..Len(b.Asserts) : ~AssertsRef(b)[i].assert.Assertion /\ ~AssertsRef(b)[i].assert.Warning

\* block b is not stopped before its assertion step
ReachesAsserts(b) ==
    /\ MatchesRef(b.StackFilters, stDir)
    /\ BlockCtxRef(b).err = NoErr
    /\ AbsentOrTrue(b, b.Condition)
    /\ AbsentOrTrue(b, b.Inherit) \/ (EvaluatesTo(b, b.Inherit, FALSE) /\ b.Dir = stDir)

ContentFails(b) == CopyBody(EmptyBody, b.Content, BlockCtxRef(b).ctx).err # NoErr

(***************************************************************************)
(* C1..C7: Load.                                                           *)
(***************************************************************************)
\* C1: a successful Load returns the artifacts sorted by label, ascending: no
\* artifact is followed by one with a smaller label, whatever the discovery order.
C1_SortedByLabel ==
    Success => \A i \in 1..(Len(ret.hcls) - 1) : ~StrLess(ret.hcls[i + 1].label, ret.hcls[i].label)

\* C1 witness: a successful run whose artifacts were discovered out of label order.
C1_Witness ==
    /\ Success
    /\ Len(ret.hcls) = Len(hcls)
    /\ \E i \in 1..(Len(hcls) - 1) : StrLess(hcls[i + 1].label, hcls[i].label)

\* the case of C2: the filters match, the lets load, the condition is false
C2Case(b) ==
    /\ MatchesRef(b.StackFilters, stDir)
    /\ BlockCtxRef(b).err = NoErr
    /\ EvaluatesTo(b, b.Condition, FALSE)

IsSkippedArtifact(h) == h.condition = FALSE /\ h.body = <<>> /\ h.asserts = <<>>

\* C2: a block whose filters match and whose condition evaluates to false never has
\* its asserts or content evaluated, never makes the run fail, and once its loop body
\* ended has exactly one artifact, with condition=false, an empty body and no asserts,
\* which a successful run returns.
C2_FalseConditionSkips ==
    \A k \in Positions :
        C2Case(hclBlocks[k]) =>
            /\ ~Evaluated(hclBlocks[k], "assert")
            /\ ~Evaluated(hclBlocks[k], "content")
            /\ (Failed => idx # k)
            /\ (pc \in {"sort", "done"} /\ idx >= k => Processed(k))
            /\ Processed(k) =>
                 /\ Cardinality(ArtifactsOf(hcls, hclBlocks[k])) = 1
                 /\ \A i \in ArtifactsOf(hcls, hclBlocks[k]) : IsSkippedArtifact(hcls[i])
            /\ Success =>
                 /\ Cardinality(ArtifactsOf(ret.hcls, hclBlocks[k])) = 1
                 /\ \A i \in ArtifactsOf(ret.hcls, hclBlocks[k]) : IsSkippedArtifact(ret.hcls[i])

\* C2 witness: a successful run with a false-condition block whose asserts and
\* content would fail to evaluate.
C2_Witness ==
    /\ Success
    /\ \E k \in Positions :
        /\ C2Case(hclBlocks[k])
        /\ ContentFails(hclBlocks[k])
        /\ ~AllAssertsEvaluate(hclBlocks[k])

\* the case of C3 as claimed: declared in a strict ancestor, inherit false
C3Case(b) == b.Dir # stDir /\ EvaluatesTo(b, b.Inherit, FALSE)

\* C3 as claimed: a successful Load returns no artifact carrying the label of an
\* ancestor's block whose inherit is false, whatever its filters and condition
\* (labels being unique).
C3_Original ==
    Success /\ LabelsUnique =>
        \A k \in Positions :
            C3Case(hclBlocks[k]) => \A i \in 1..Len(ret.hcls) : ret.hcls[i].label # hclBlocks[k].Label

\* C3 amended: the same for the blocks whose filters match, whose lets load and
\* whose condition is absent or true; such a block has no artifact, and its asserts
\* and content are never evaluated.
C3_NotInheritedDropped ==
    \A k \in Positions :
        C3Case(hclBlocks[k]) /\ MatchesRef(hclBlocks[k].StackFilters, stDir)
        /\ BlockCtxRef(hclBlocks[k]).err = NoErr /\ AbsentOrTrue(hclBlocks[k], hclBlocks[k].Condition) =>
            /\ ArtifactsOf(hcls, hclBlocks[k]) = {}
            /\ ArtifactsOf(ret.hcls, hclBlocks[k]) = {}
            /\ ~Evaluated(hclBlocks[k], "assert")
            /\ ~Evaluated(hclBlocks[k], "content")
            /\ (Failed => idx # k)
            /\ (Success /\ LabelsUnique => \A i \in 1..Len(ret.hcls) : ret.hcls[i].label # hclBlocks[k].Label)

\* C3 witness: a successful run that dropped an ancestor's block whose inherit is
\* false and whose asserts and content would fail.
C3_Witness ==
    /\ Success
    /\ \E k \in Positions :
        /\ C3Case(hclBlocks[k])
        /\ Evaluated(hclBlocks[k], "inherit")
        /\ ContentFails(hclBlocks[k])

\* C4: the filter decision of Load is the reference predicate: the block goes on to
\* its lets if and only if it has no filter or some filter all of whose present
\* glob-sets match, in whatever order the glob-sets are visited; otherwise it gets
\* the non-applicable artifact.
C4_FilterDecision ==
    \A k \in Positions :
        Evaluated(hclBlocks[k], "filter") =>
            /\ ((pc = "lets" /\ idx = k) \/ Evaluated(hclBlocks[k], "lets")) <=> MatchesRef(hclBlocks[k].StackFilters, stDir)
            /\ ~MatchesRef(hclBlocks[k].StackFilters, stDir) =>
                 /\ Processed(k)
                 /\ \E i \in ArtifactsOf(hcls, hclBlocks[k]) : IsSkippedArtifact(hcls[i])

\* C4 witness: a block with two filters, the first matching and the second not, one
\* of them constraining both glob-sets, has matched.
C4_Witness ==
    \E k \in Positions :
        /\ Evaluated(hclBlocks[k], "lets")
        /\ Len(hclBlocks[k].StackFilters) = 2
        /\ hclBlocks[k].StackFilters[1] = [ProjectPaths |-> Globs(<<GlobMiss, GlobHit>>), RepositoryPaths |-> Globs(<<GlobHit>>)]
        /\ hclBlocks[k].StackFilters[2] = [ProjectPaths |-> Globs(<<GlobHit>>), RepositoryPaths |-> Globs(<<GlobMiss>>)]

\* the case of C5: the block reaches its asserts, all evaluate, one fails
C5Case(b) == ReachesAsserts(b) /\ AllAssertsEvaluate(b) /\ SomeAssertFailed(b)

\* C5: a block that reaches its asserts, all of which evaluate and one of which is a
\* failed non-warning, never has its content evaluated and never fails the run; its
\* artifact has condition=true, the evaluated asserts and an empty body.
C5_FailedAssertSuppresses ==
    \A k \in Positions :
        C5Case(hclBlocks[k]) =>
            /\ ~Evaluated(hclBlocks[k], "content")
            /\ (Failed => idx # k)
            /\ (pc \in {"sort", "done"} /\ idx >= k => Processed(k))
            /\ Processed(k) =>
                 /\ Cardinality(ArtifactsOf(hcls, hclBlocks[k])) = 1
                 /\ \A i \in ArtifactsOf(hcls, hclBlocks[k]) :
                      /\ hcls[i].condition = TRUE
                      /\ hcls[i].body = <<>>
                      /\ hcls[i].asserts = [j \in 1..Len(hclBlocks[k].Asserts) |-> AssertsRef(hclBlocks[k])[j].assert]
            /\ Success => \E i \in ArtifactsOf(ret.hcls, hclBlocks[k]) :
                 ret.hcls[i].condition /\ ret.hcls[i].body = <<>> /\ ret.hcls[i].asserts # <<>>

\* C5 witness: a successful run with such a block whose content would fail.
C5_Witness ==
    /\ Success
    /\ \E k \in Positions : C5Case(hclBlocks[k]) /\ ContentFails(hclBlocks[k]) /\ Evaluated(hclBlocks[k], "assert")

\* the case of C6: the block reaches its asserts, all evaluate, none fails
C6Case(b) == ReachesAsserts(b) /\ AllAssertsEvaluate(b) /\ ~SomeAssertFailed(b)

\* C6: a block that reaches its asserts, of which every one that does not pass is a
\* warning, has its content evaluated; when the content evaluates, the artifact has
\* condition=true, the evaluated asserts and the formatted rendering of the copied
\* content as body, which is not empty for a content that is not.
C6_WarningDoesNotSuppress ==
    \A k \in Positions :
        C6Case(hclBlocks[k]) =>
            /\ (Processed(k) \/ (Failed /\ idx = k)) => Evaluated(hclBlocks[k], "content")
            /\ (Failed /\ idx = k) => ContentFails(hclBlocks[k])
            /\ Processed(k) =>
                 /\ Cardinality(ArtifactsOf(hcls, hclBlocks[k])) = 1
                 /\ \A i \in ArtifactsOf(hcls, hclBlocks[k]) :
                      /\ hcls[i].condition = TRUE
                      /\ hcls[i].asserts = [j \in 1..Len(hclBlocks[k].Asserts) |-> AssertsRef(hclBlocks[k])[j].assert]
                      /\ hcls[i].body # <<>>
                      /\ \A n \in 1..Len(hcls[i].body) : hcls[i].body[n].formatted
                      /\ ((\A j \in Positions : j > k => ~Evaluated(hclBlocks[j], "content"))
                            => hcls[i].body = FormatMultiline(Bytes(gen)))

\* C6 witness: a successful run with a block that has an assert with assertion=false
\* and warning=true, and whose artifact has a body.
C6_Witness ==
    /\ Success
    /\ \E k \in Positions :
        /\ C6Case(hclBlocks[k])
        /\ \E j \in 1..Len(hclBlocks[k].Asserts) :
             ~AssertsRef(hclBlocks[k])[j].assert.Assertion /\ AssertsRef(hclBlocks[k])[j].assert.Warning
        /\ \E i \in ArtifactsOf(ret.hcls, hclBlocks[k]) : ret.hcls[i].body # <<>>

\* the error kinds of the fatal steps of a block
FatalKinds == {ErrLetsEval, ErrConditionEval, ErrInvalidConditionType, ErrInheritEval, ErrInvalidInheritType, ErrAssertEval, ErrContentEval}

\* C7: when a step of a block fails, Load returns the error and a nil list, also when
\* earlier blocks produced artifacts, and no step of a later block is performed.
C7_ErrorAborts ==
    Failed =>
        /\ ret.isNil
        /\ ret.hcls = <<>>
        /\ ret.err[1] \in FatalKinds
        /\ \A k \in Positions : k > idx => \A st \in steps : st.origin # hclBlocks[k].Range

\* C7 witness: a run that failed after it had appended an artifact.
C7_Witness == Failed /\ Len(hcls) >= 1 /\ idx = 2

(***************************************************************************)
(* The meta-block of a run of SpecDyn, as the claims on tm_dynamic see it. *)
(***************************************************************************)
\* the content of the only block has been copied, and it starts with a meta-block
DynDone ==
    /\ Len(hclBlocks) = 1
    /\ Evaluated(hclBlocks[1], "content")
    /\ Len(hclBlocks[1].Content.Blocks) >= 1
    /\ hclBlocks[1].Content.Blocks[1].Type = "tm_dynamic"

Dyn == hclBlocks[1].Content.Blocks[1]

\* the error copyBody returned: what the content error of Load wraps
CopyErr == IF Failed THEN Tail(ret.err) ELSE NoErr

\* the context copyBody started with
ContentCtxRef == SetFunction(BlockCtxRef(hclBlocks[1]).ctx, "hcl_expression")

\* one generated type, supported attributes only, at most one sub-block, which is a
\* content block, and content or attributes present
StructurallyValid ==
    /\ Len(Dyn.Labels) = 1
    /\ DOMAIN Dyn.Body.Attributes \subseteq {"for_each", "iterator", "condition", "labels", "attributes"}
    /\ Len(Dyn.Body.Blocks) <= 1
    /\ \A i \in 1..Len(Dyn.Body.Blocks) : Dyn.Body.Blocks[i].Type = "content"
    /\ (Len(Dyn.Body.Blocks) = 1 \/ "attributes" \in DOMAIN Dyn.Body.Attributes)

HasContent == Len(Dyn.Body.Blocks) = 1

ContentAttrsRef == IF HasContent THEN Dyn.Body.Blocks[1].Body.Attributes ELSE NoAttrs

GuardRef == Eval(ContentCtxRef, DynAttr(Dyn, "condition"))

GuardPasses == DynAttr(Dyn, "condition").e = "absent" \/ (GuardRef.err = NoErr /\ GuardRef.val = BoolVal(TRUE))

GuardFalse == DynAttr(Dyn, "condition").e # "absent" /\ GuardRef.err = NoErr /\ GuardRef.val = BoolVal(FALSE)

ForEachRef == Eval(ContentCtxRef, DynAttr(Dyn, "for_each"))

\* for_each evaluates to a collection
Iterates ==
    /\ DynAttr(Dyn, "for_each").e # "absent"
    /\ ForEachRef.err = NoErr
    /\ ForEachRef.val.t \in {"list", "map"}

ElemsRef == ForEachRef.val.l

\* the name of the loop variable
LoopVar == IF DynAttr(Dyn, "iterator").e = "absent" THEN Dyn.Labels[1] ELSE DynAttr(Dyn, "iterator").ns

IteratorValid ==
    DynAttr(Dyn, "iterator").e = "absent"
    \/ (DynAttr(Dyn, "iterator").e = "ref" /\ DynAttr(Dyn, "iterator").attr = "")

\* the expression reads the key or the value of the loop variable
ReadsLoopVar(expr) == expr.e = "ref" /\ expr.ns = LoopVar /\ expr.attr \in {"key", "value"}

\* what such an expression is while element el is bound
BoundTo(expr, el) == Lit(IF expr.attr = "key" THEN el.k ELSE el.v)

HasAttr(body, n) == \E i \in 1..Len(body.attrs) : body.attrs[i].name = n

AttrTokens(body, n) == body.attrs[CHOOSE i \in 1..Len(body.attrs) : body.attrs[i].name = n].tokens

\* the case of C8: a structurally valid meta-block that iterates, unguarded, and
\* whose copy returned no error
C8Case == DynDone /\ StructurallyValid /\ Iterates /\ GuardPasses /\ ~Failed

C9Case == DynDone /\ StructurallyValid /\ GuardPasses /\ Iterates /\ IteratorValid

\* C9: after the copy of a body whose meta-block reached its loop, whether the copy
\* succeeded or an iteration failed, the loop variable is not bound in the context;
\* and the attributes of the sibling copied after the meta-block that read the loop
\* variable are left unevaluated.
C9_IteratorRemoved ==
    C9Case =>
        /\ ~HasNamespace(blockctx, LoopVar)
        /\ ~Failed =>
             \A n \in DOMAIN Sibling.Body.Attributes :
                 ReadsLoopVar(Sibling.Body.Attributes[n]) =>
                     AttrTokens(gen.blocks[Len(gen.blocks)].Body, n) = Sibling.Body.Attributes[n]

\* C9 witness: a run in which an iteration failed after the loop variable was bound.
C9_Witness == C9Case /\ Failed /\ Len(ElemsRef) >= 1 /\ Len(gen.blocks) >= 1

\* the context of expansion i: the loop variable bound to element i when iterating
ExpansionCtxRef(i) ==
    IF Iterates
      THEN SetNamespace(ContentCtxRef, LoopVar,
                        [n \in {"key", "value"} |-> IF n = "key" THEN ElemsRef[i].k ELSE ElemsRef[i].v])
      ELSE ContentCtxRef

Expansions == IF Iterates THEN 1..Len(ElemsRef) ELSE {1}

LabelsRef(i) == DynamicLabels(ExpansionCtxRef(i), GetDynamicBlockAttrs(Dyn).attrs)

AttributesRef(i) == DynamicAttributes(ExpansionCtxRef(i), GetDynamicBlockAttrs(Dyn).attrs)

\* in expansion i the labels and the attributes evaluate and attributes sets a name
\* that is a top-level attribute of content
Conflict(i) ==
    /\ LabelsRef(i).err = NoErr
    /\ AttributesRef(i).err = NoErr
    /\ AttributesRef(i).names \cap DOMAIN ContentAttrsRef # {}

\* the case of C10: a meta-block with attributes and content that reaches its expansions
C10Case ==
    /\ DynDone /\ StructurallyValid /\ GuardPasses
    /\ DynAttr(Dyn, "attributes").e # "absent"
    /\ HasContent
    /\ \/ Iterates /\ IteratorValid
       \/ /\ DynAttr(Dyn, "iterator").e = "absent"
          /\ DynAttr(Dyn, "for_each").e = "absent" \/ (ForEachRef.err = NoErr /\ IsNull(ForEachRef.val))

\* C10: in a meta-block with attributes and content, the first expansion in which
\* attributes sets a name that is also a top-level attribute of content fails with
\* the attribute/content conflict error, also when the two values are equal; the
\* block of that expansion is the last of the destination and holds the attributes
\* that attributes set and nothing of content.
C10_AttributesContentConflict ==
    C10Case =>
        \A k \in Expansions :
            (Conflict(k) /\ (\A j \in 1..(k - 1) : ~Conflict(j)) /\ (k = 1 \/ Len(gen.blocks) >= k)) =>
                /\ Failed
                /\ CopyErr = E(ErrDynamicAttrsConflict)
                /\ Len(gen.blocks) = k
                /\ gen.blocks[k].Type = Dyn.Labels[1]
                /\ gen.blocks[k].Body = AttributesRef(k).body
                /\ gen.blocks[k].Body.blocks = <<>>
                /\ {gen.blocks[k].Body.attrs[i].name : i \in 1..Len(gen.blocks[k].Body.attrs)} = AttributesRef(k).names

\* C10 witness: an expansion that fails on the conflict although attributes and
\* content give the name the same value.
C10_Witness ==
    /\ C10Case
    /\ Failed
    /\ CopyErr = E(ErrDynamicAttrsConflict)
    /\ \E n \in DOMAIN ContentAttrsRef :
          /\ HasAttr(gen.blocks[Len(gen.blocks)].Body, n)
          /\ AttrTokens(gen.blocks[Len(gen.blocks)].Body, n) = ContentAttrsRef[n]

(***************************************************************************)
(* C11..C19: Load, continued.                                              *)
(***************************************************************************)
\* the functions and namespaces the caller passed
IsCallerBinding(ctx, n) == n \in DOMAIN ctx.ns /\ ctx.ns[n] = CallerCtx.ns[n]

\* C11: the context passed to Load is never modified, and the context in which a
\* block is evaluated holds what the caller passed and what the block itself bound:
\* after the copy the caller's namespaces and functions and "vendor"; from the
\* condition on also the lets of this block and no others; nothing that an earlier
\* block registered or bound.
C11_BlockContextIsolated ==
    /\ evalctx = CallerCtx
    /\ pc \in {"lets", "condition", "inherit", "asserts", "content"} =>
         /\ blockctx.funcs = CallerCtx.funcs \cup {"vendor"}
         /\ \A n \in DOMAIN CallerCtx.ns : IsCallerBinding(blockctx, n)
         /\ DOMAIN blockctx.ns \subseteq (DOMAIN CallerCtx.ns) \cup {"let"}
    /\ pc = "lets" => DOMAIN blockctx.ns = DOMAIN CallerCtx.ns
    /\ pc \in {"condition", "inherit", "asserts", "content"} =>
         /\ HasNamespace(blockctx, "let")
         /\ DOMAIN blockctx.ns["let"] = {hclBlock.Lets[i].name : i \in 1..Len(hclBlock.Lets)}

\* C11 witness: the second block starts after the first, which has lets, had its
\* content copied.
C11_Witness ==
    /\ idx = 2
    /\ pc = "lets"
    /\ Evaluated(hclBlocks[1], "content")
    /\ hclBlocks[1].Lets # <<>>
    /\ "hcl_expression" \notin blockctx.funcs

\* C12: a run over a hierarchy in which two blocks carry the same label ends with an
\* error, and a successful run never returns two artifacts with the same label.
C12_DuplicateLabelsRejected ==
    /\ (ret.done /\ ~LabelsUnique) => Failed
    /\ Success => \A i, j \in 1..Len(ret.hcls) : ret.hcls[i].label = ret.hcls[j].label => i = j

\* the directories from d up to the root, nearest first
PathUp(d) == [i \in 1..(Len(d) + 1) |-> SubSeq(d, 1, Len(d) + 1 - i)]

OnPathUp(d, from) == \E i \in 1..(Len(from) + 1) : PathUp(from)[i] = d

\* the blocks directory d declares
DeclaredIn(d) == IF d \in DOMAIN tree /\ tree[d].ok /\ ~tree[d].empty THEN tree[d].HCLs ELSE <<>>

\* the positions of the block with Range r in a sequence of blocks
PlacesOf(blocks, r) == {i \in 1..Len(blocks) : blocks[i].Range = r}

LastCopied == CHOOSE k \in Positions :
    /\ Evaluated(hclBlocks[k], "content")
    /\ \A j \in Positions : Evaluated(hclBlocks[j], "content") => j <= k

\* the context copyBody got for block b
CopyCtxRef(b) == SetFunction(BlockCtxRef(b).ctx, "hcl_expression")

\* the expression references a namespace that the context does not bind
Unbound(ctx, expr) == expr.e = "ref" /\ ~HasNamespace(ctx, expr.ns)

\* the attributes of a body in the order copyBody visits them: its own in name order,
\* then those of its blocks, none of which has blocks or is a meta-block
Visited(body) ==
    LET own == SortRawAttributes(body.Attributes)
        inner == IF body.Blocks = <<>> THEN <<>> ELSE SortRawAttributes(body.Blocks[1].Body.Attributes)
    IN  [i \in 1..Len(own) |-> [Name |-> own[i].Name, Expr |-> own[i].Expr, at |-> 0]]
        \o [i \in 1..Len(inner) |-> [Name |-> inner[i].Name, Expr |-> inner[i].Expr, at |-> 1]]

PlainContent(body) ==
    /\ Len(body.Blocks) <= 1
    /\ \A i \in 1..Len(body.Blocks) : body.Blocks[i].Type # "tm_dynamic" /\ body.Blocks[i].Body.Blocks = <<>>

\* the tokens of attribute name of the destination body, or of its first block
TokensAt(dest, at, name) ==
    LET b == IF at = 0 THEN dest ELSE dest.blocks[1].Body
    IN  {b.attrs[i].tokens : i \in {j \in 1..Len(b.attrs) : b.attrs[j].name = name}}

\* the visited attributes of the body whose partial evaluation in ctx returns an error
FailingIn(ctx, body) == {i \in 1..Len(Visited(body)) : PartialEval(ctx, Visited(body)[i].Expr).err # NoErr}

FirstFailing(ctx, body) == CHOOSE i \in FailingIn(ctx, body) : \A j \in FailingIn(ctx, body) : i <= j

\* the content error of Load: copyBody failed
CopyFailed == Failed /\ ret.err[1] = ErrContentEval

\* what copyBody did with the content of the block copied last
CopyOutcome ==
    LET b == hclBlocks[LastCopied]
        ctx == CopyCtxRef(b)
        v == Visited(b.Content)
        bad == FailingIn(ctx, b.Content)
    IN  /\ \A i \in 1..Len(v) : Unbound(ctx, v[i].Expr) =>
              /\ i \notin bad
              /\ (\A j \in bad : i < j) => TokensAt(gen, v[i].at, v[i].Name) = {TokensForExpression(v[i].Expr)}
        /\ CopyFailed <=> bad # {}
        /\ bad # {} => ret.err = Wrap(ErrContentEval, PartialEval(ctx, v[FirstFailing(ctx, b.Content)].Expr).err
                                                       \o <<v[FirstFailing(ctx, b.Content)].Name>>)
        /\ bad = {} => CopyBody(EmptyBody, b.Content, ctx).dest = gen

LoadCalls == {"Load", "TryLoad"}

\* the step is a call of Load or TryLoad on a directory that is in the cache
CachedCall == loader'.last.op \in LoadCalls /\ loader'.last.dir \in DOMAIN loader.l

\* C15: a directory gets into the cache only by a successful Load or TryLoad of it
\* and stays there; a Load or TryLoad of a directory that is in the cache returns
\* the cached stack with no error and found=true, parses and checks no directory
\* and leaves the cache as it is, whatever the directories hold by then.
C15_CachedStackReturned ==
    [][/\ DOMAIN loader.l \subseteq DOMAIN loader'.l
       /\ \A d \in DOMAIN loader.l : loader'.l[d] = loader.l[d]
       /\ \A d \in DOMAIN loader'.l \ DOMAIN loader.l :
             /\ loader'.last.err = NoErr \/ d # loader'.last.dir
             /\ loader.fs[d] \in {"named", "anon"}
       /\ CachedCall =>
             /\ loader'.last.s = loader.l[loader'.last.dir]
             /\ loader'.last.found
             /\ loader'.last.err = NoErr
             /\ loader'.last.parsed = {}
             /\ loader'.l = loader.l]_vars

\* C15 witness: a Load or TryLoad returned the stack of a directory without parsing
\* anything, although the directory no longer holds a stack, other directories
\* having been loaded as well.
C15_Witness ==
    /\ loader.last.op \in LoadCalls
    /\ loader.last.found
    /\ loader.last.parsed = {}
    /\ loader.last.s.Dir = loader.last.dir
    /\ loader.fs[loader.last.dir] \in {"none", "bad", "nostack"}
    /\ DOMAIN loader.l # {loader.last.dir}

(***************************************************************************)
(* C16..C19: the steps of a block                                          *)
(***************************************************************************)

StepNames == <<"filter", "lets", "condition", "inherit", "assert", "content">>

Rank(step) == CHOOSE i \in 1..Len(StepNames) : StepNames[i] = step

BlockAt(origin) == hclBlocks[CHOOSE k \in Positions : hclBlocks[k].Range = origin]

\* block b is let through by every step before the one of rank r
LetThrough(b, r) ==
    /\ r >= 2 => MatchesRef(b.StackFilters, stDir)
    /\ r >= 3 => BlockCtxRef(b).err = NoErr
    /\ r >= 4 => AbsentOrTrue(b, b.Condition)
    /\ r >= 5 => ReachesAsserts(b)
    /\ r >= 6 => AllAssertsEvaluate(b) /\ ~SomeAssertFailed(b)

\* the steps block b has to have performed before the one of rank r
Performed(b, r) ==
    /\ r >= 2 => Evaluated(b, "filter")
    /\ r >= 3 => Evaluated(b, "lets")
    /\ r >= 4 => Evaluated(b, "condition") \/ b.Condition.e = "absent"
    /\ r >= 5 => Evaluated(b, "inherit") \/ b.Inherit.e = "absent"
    /\ r >= 6 => \A i \in 1..Len(b.Asserts) : Step(b.Range, "assert", i) \in steps

\* a step that is performed is a step of the current block, comes after every step
\* the block performed before, all of which let the block continue
StepInOrder(st) ==
    /\ hclBlocks # <<>>
    /\ idx \in Positions
    /\ st.origin = hclBlock.Range
    /\ \A old \in steps : old.origin = st.origin => Rank(old.step) < Rank(st.step)
    /\ Performed(hclBlock, Rank(st.step))
    /\ LetThrough(hclBlock, Rank(st.step))

\* a block whose filters were found not to match
FilteredOut(k) == Evaluated(hclBlocks[k], "filter") /\ ~MatchesRef(hclBlocks[k].StackFilters, stDir)

\* C16: every step of a block is performed after the earlier steps of that block, in
\* the order filter, lets, condition, inherit, asserts, content, and only if all of
\* them let the block continue; a block whose filters do not match gets the
\* non-applicable artifact, has no other step performed and does not fail the run.
C16_StepsInOrder ==
    /\ [][\A st \in steps' \ steps : StepInOrder(st)]_vars
    /\ [](\A k \in Positions :
            FilteredOut(k) =>
                /\ \A st \in steps : st.origin = hclBlocks[k].Range => st.step = "filter"
                /\ Processed(k)
                /\ Cardinality(ArtifactsOf(hcls, hclBlocks[k])) = 1
                /\ \A i \in ArtifactsOf(hcls, hclBlocks[k]) : IsSkippedArtifact(hcls[i])
                /\ Failed => idx # k)

\* C16 witness: a run succeeded in which a block whose filters do not match, and
\* whose lets, condition, inherit, asserts and content all fail to evaluate, came
\* before a block that performed all its steps.
C16_Witness ==
    /\ Success
    /\ \E j, k \in Positions :
          /\ j < k
          /\ FilteredOut(j)
          /\ BlockCtxRef(hclBlocks[j]).err # NoErr
          /\ ContentFails(hclBlocks[j])
          /\ hclBlocks[j].Asserts # <<>> /\ ~AllAssertsEvaluate(hclBlocks[j])
          /\ Evaluated(hclBlocks[k], "content")
          /\ Evaluated(hclBlocks[k], "inherit")
          /\ hclBlocks[k].Asserts # <<>>

\* block b is dropped by the inheritance gate
DroppedByInherit(b) ==
    /\ C3Case(b)
    /\ MatchesRef(b.StackFilters, stDir)
    /\ BlockCtxRef(b).err = NoErr
    /\ AbsentOrTrue(b, b.Condition)

\* the positions of the loaded blocks that are not dropped
Kept == {k \in Positions : ~DroppedByInherit(hclBlocks[k])}

\* C17: a successful run returns one artifact for every loaded block that the
\* inheritance gate did not drop and none for a dropped one, every artifact being
\* that of one loaded block and carrying its label: as many artifacts as blocks not
\* dropped, and every label as often among the artifacts as among those blocks.
C17_OneArtifactPerKeptBlock ==
    Success =>
        /\ Len(ret.hcls) = Cardinality(Positions) - Cardinality(Positions \ Kept)
        /\ \A k \in Positions :
              Cardinality(ArtifactsOf(ret.hcls, hclBlocks[k])) = IF k \in Kept THEN 1 ELSE 0
        /\ \A i \in 1..Len(ret.hcls) :
              \E k \in Kept : ret.hcls[i].origin = hclBlocks[k].Range /\ ret.hcls[i].label = hclBlocks[k].Label
        /\ \A label \in {hclBlocks[k].Label : k \in Positions} :
              Cardinality({i \in 1..Len(ret.hcls) : ret.hcls[i].label = label})
                = Cardinality({k \in Kept : hclBlocks[k].Label = label})

\* C17 witness: a successful run over two blocks with the same label, one dropped by
\* the inheritance gate and one whose filters do not match, returned one artifact.
C17_Witness ==
    /\ Success
    /\ Len(hclBlocks) = 2
    /\ hclBlocks[1].Label = hclBlocks[2].Label
    /\ \E j, k \in Positions : DroppedByInherit(hclBlocks[j]) /\ FilteredOut(k)
    /\ Len(ret.hcls) = 1

\* what the loop body of a block ends with: an error of the run or the artifacts of
\* the block
Ended(err, list) == [err |-> err, hcls |-> list]

\* the loop body of block k has ended
Finished(k) == Processed(k) \/ (Failed /\ idx = k)

\* what the loop body of block k ended with
Outcome(k) ==
    IF Failed /\ idx = k THEN Ended(ret.err, <<>>)
    ELSE Ended(NoErr, SelectSeq(hcls, LAMBDA h : h.origin = hclBlocks[k].Range))

\* the errors of the asserts of block b that do not evaluate
AssertErrsRef(b) ==
    LET failing == SelectSeq(AssertsRef(b), LAMBDA r : r.err # NoErr)
    IN  [i \in 1..Len(failing) |-> failing[i].err[1]]

\* what the loop body of block b ends with when no inheritance gate is applied
OutcomeWithoutInherit(b) ==
    LET c == Eval(BlockCtxRef(b).ctx, b.Condition)
        evaluated == [i \in 1..Len(b.Asserts) |-> AssertsRef(b)[i].assert]
        copy == CopyBody(EmptyBody, b.Content, CopyCtxRef(b))
    IN  IF ~MatchesRef(b.StackFilters, stDir) THEN Ended(NoErr, <<SkippedHCL(b, FALSE)>>)
        ELSE IF BlockCtxRef(b).err # NoErr THEN Ended(BlockCtxRef(b).err, <<>>)
        ELSE IF b.Condition.e # "absent" /\ c.err # NoErr THEN Ended(Wrap(ErrConditionEval, c.err), <<>>)
        ELSE IF b.Condition.e # "absent" /\ c.val.t # "bool" THEN Ended(E(ErrInvalidConditionType), <<>>)
        ELSE IF b.Condition.e # "absent" /\ ~True(c.val) THEN Ended(NoErr, <<SkippedHCL(b, FALSE)>>)
        ELSE IF AssertErrsRef(b) # <<>> THEN Ended(AssertErrsRef(b), <<>>)
        ELSE IF SomeAssertFailed(b) THEN Ended(NoErr, <<HCL(b.Label, b.Range, <<>>, TRUE, evaluated)>>)
        ELSE IF copy.err # NoErr THEN Ended(Wrap(ErrContentEval, copy.err), <<>>)
        ELSE Ended(NoErr, <<HCL(b.Label, b.Range, FormatMultiline(Bytes(copy.dest)), TRUE, evaluated)>>)

\* block b gets to the inheritance gate
GateReached(b) ==
    /\ MatchesRef(b.StackFilters, stDir)
    /\ BlockCtxRef(b).err = NoErr
    /\ AbsentOrTrue(b, b.Condition)

InheritIsBoolean(b) == EvaluatesTo(b, b.Inherit, TRUE) \/ EvaluatesTo(b, b.Inherit, FALSE)

\* a block of the stack's own directory that has an inherit attribute
OwnWithInherit(k) == hclBlocks[k].Dir = stDir /\ hclBlocks[k].Inherit.e # "absent" /\ Finished(k)

\* C18 as claimed: the loop body of a block declared in the stack's own directory
\* ends as it would without the inherit attribute, whatever the inherit expression
\* is or evaluates to.
C18_Original ==
    \A k \in Positions : OwnWithInherit(k) => Outcome(k) = OutcomeWithoutInherit(hclBlocks[k])

\* C18 amended: it ends as it would without the inherit attribute whenever the
\* inherit expression is not evaluated or evaluates to a boolean, true or false; an
\* inherit expression that is evaluated and fails to evaluate or gives a value that
\* is not a boolean fails the run, in the stack's own directory as anywhere else.
C18_OwnDirIgnoresBooleanInherit ==
    \A k \in Positions :
        OwnWithInherit(k) =>
            IF GateReached(hclBlocks[k]) /\ ~InheritIsBoolean(hclBlocks[k])
              THEN /\ Failed /\ idx = k
                   /\ ret.err[1] \in {ErrInheritEval, ErrInvalidInheritType}
                   /\ Outcome(k) # OutcomeWithoutInherit(hclBlocks[k])
              ELSE Outcome(k) = OutcomeWithoutInherit(hclBlocks[k])

\* C18 witness: a block of the stack's own directory whose inherit evaluated to false
\* went on and had its content generated.
C18_Witness ==
    \E k \in Positions :
        /\ OwnWithInherit(k)
        /\ Evaluated(hclBlocks[k], "inherit")
        /\ EvaluatesTo(hclBlocks[k], hclBlocks[k].Inherit, FALSE)
        /\ Evaluated(hclBlocks[k], "content")
        /\ Processed(k)

\* the case of C19: block b reaches its asserts and some do not evaluate
C19Case(b) == ReachesAsserts(b) /\ ~AllAssertsEvaluate(b)

\* C19: when a block reaches its asserts all of them are evaluated, whichever fail to
\* evaluate; if some do, the run fails at that block with the errors of all of them
\* in declaration order, the block gets no artifact and its content is not
\* evaluated, also when another assert of the block is a failed non-warning.
C19_AssertErrorsAggregated ==
    \A k \in Positions :
        /\ Evaluated(hclBlocks[k], "assert") =>
              \A i \in 1..Len(hclBlocks[k].Asserts) : Step(hclBlocks[k].Range, "assert", i) \in steps
        /\ C19Case(hclBlocks[k]) => ~Processed(k) /\ ~(pc = "content" /\ idx = k)
        /\ C19Case(hclBlocks[k]) /\ Evaluated(hclBlocks[k], "assert") =>
              /\ Failed /\ idx = k
              /\ ret.err = AssertErrsRef(hclBlocks[k])
              /\ Len(ret.err) = Cardinality({i \in 1..Len(hclBlocks[k].Asserts) : AssertsRef(hclBlocks[k])[i].err # NoErr})
              /\ ret.hcls = <<>>
              /\ ArtifactsOf(hcls, hclBlocks[k]) = {}
              /\ ~Evaluated(hclBlocks[k], "content")

\* C19 witness: a run failed at a block with three asserts, the first and the last of
\* which do not evaluate and the second of which is a failed non-warning, after an
\* artifact had been appended.
C19_Witness ==
    \E k \in Positions :
        /\ Failed /\ idx = k
        /\ Len(hclBlocks[k].Asserts) = 3
        /\ AssertsRef(hclBlocks[k])[1].err # NoErr
        /\ AssertsRef(hclBlocks[k])[2].err = NoErr /\ ~AssertsRef(hclBlocks[k])[2].assert.Assertion
        /\ AssertsRef(hclBlocks[k])[3].err # NoErr
        /\ Len(ret.err) = 2
        /\ Len(hcls) = 1

(***************************************************************************)
(* C20: the structural validation of a tm_dynamic block                    *)
(***************************************************************************)

NestedOfType(type) == {i \in 1..Len(Dyn.Body.Blocks) : Dyn.Body.Blocks[i].Type = type}

LabelViolations == IF Len(Dyn.Labels) # 1 THEN 1 ELSE 0

UnsupportedAttrs == (DOMAIN Dyn.Body.Attributes) \ {"attributes", "for_each", "labels", "iterator", "condition"}

Unrecognized == (1..Len(Dyn.Body.Blocks)) \ NestedOfType("content")

\* the content blocks after the first
Duplicates == {i \in NestedOfType("content") : \E j \in NestedOfType("content") : j < i}

\* the report that content or attributes must be defined: no attributes, and no
\* content block or none that the validation of the nested blocks accepted
MissingReported ==
    IF "attributes" \notin DOMAIN Dyn.Body.Attributes
       /\ (NestedOfType("content") = {} \/ Unrecognized # {} \/ Duplicates # {})
      THEN 1 ELSE 0

Violations ==
    LabelViolations + Cardinality(UnsupportedAttrs) + Cardinality(Unrecognized) + Cardinality(Duplicates)
    + MissingReported

\* C20: when a tm_dynamic block has a structural violation the copy fails with one
\* error that lists them all (the label count, each unsupported attribute, each
\* unrecognized nested block, each content block after the first, content or
\* attributes missing), nothing of the block is evaluated, no block is appended to
\* the destination and no iterator is bound, also with no label at all; a block
\* without violation has its condition evaluated.
C20_ValidationCollectsThenFails ==
    DynDone =>
        /\ Violations > 0 =>
              /\ Failed
              /\ CopyErr = [i \in 1..Violations |-> ErrParsing]
              /\ gen = EmptyBody
              /\ DOMAIN blockctx.ns = DOMAIN ContentCtxRef.ns
        /\ Violations = 0 =>
              /\ StructurallyValid
              /\ "condition" \in DOMAIN Dyn.Body.Attributes => Failed /\ CopyErr[1] = ErrDynamicConditionEval

\* C20 witness: a tm_dynamic block without labels, with two unsupported attributes, a
\* failing condition, an unrecognized nested block and a content block, was rejected
\* with five errors.
C20_Witness ==
    /\ DynDone
    /\ Dyn.Labels = <<>>
    /\ Cardinality(UnsupportedAttrs) = 2
    /\ "condition" \in DOMAIN Dyn.Body.Attributes
    /\ Cardinality(Unrecognized) = 1
    /\ Cardinality(NestedOfType("content")) = 1
    /\ MissingReported = 1
    /\ Failed
    /\ Len(CopyErr) = 5

(***************************************************************************)
(* C21..C24: the expansion of tm_dynamic blocks, continued                 *)
(***************************************************************************)

\* the violations of the meta-block other than content or attributes missing
OtherViolations == LabelViolations + Cardinality(UnsupportedAttrs) + Cardinality(Unrecognized) + Cardinality(Duplicates)

\* the run reported that content or attributes must be defined: the validation
\* failed with one error more than the other violations account for
MissingWasReported == Failed /\ Violations > 0 /\ Len(CopyErr) = OtherViolations + 1

\* C21: the violation that content or attributes must be defined is reported if and
\* only if the meta-block has neither an attributes attribute nor a nested content
\* block.
C21_MissingReportedIffNeither ==
    DynDone =>
        (MissingWasReported <=>
            "attributes" \notin DOMAIN Dyn.Body.Attributes /\ NestedOfType("content") = {})

\* the case of C22: a structurally valid meta-block without for_each whose guard is
\* absent or true
C22Case == DynDone /\ StructurallyValid /\ DynAttr(Dyn, "for_each").e = "absent" /\ GuardPasses

\* the blocks of the generated type at the top of the destination
Generated == {i \in 1..Len(gen.blocks) : gen.blocks[i].Type = Dyn.Labels[1]}

C23_EnclosingScopeUnaltered == DynDone => blockctx.ns = ContentCtxRef.ns

RECURSIVE MetaLabelsIn(_)
\* the labels of the meta-blocks of a source body, at any depth
MetaLabelsIn(body) ==
    UNION {(IF body.Blocks[i].Type = "tm_dynamic" THEN {body.Blocks[i].Labels} ELSE {})
           \cup MetaLabelsIn(body.Blocks[i].Body) : i \in 1..Len(body.Blocks)}

RECURSIVE HasMetaBlock(_)
\* the destination body holds a block of type tm_dynamic, at any depth
HasMetaBlock(dest) ==
    \E i \in 1..Len(dest.blocks) : dest.blocks[i].Type = "tm_dynamic" \/ HasMetaBlock(dest.blocks[i].Body)

\* the types and labels of the ordinary blocks of a source body, in order
OrdinaryOf(body) ==
    LET o == SelectSeq(body.Blocks, LAMBDA b : b.Type # "tm_dynamic")
    IN  [i \in 1..Len(o) |-> [Type |-> o[i].Type, Labels |-> o[i].Labels]]

\* the types and labels of the blocks of a destination body that no meta-block of
\* the source body generated, in order
CopiedOf(dest, body) ==
    LET generated == {body.Blocks[i].Labels[1] : i \in {k \in 1..Len(body.Blocks) : body.Blocks[k].Type = "tm_dynamic"}}
        o == SelectSeq(dest.blocks, LAMBDA b : b.Type \notin generated)
    IN  [i \in 1..Len(o) |-> [Type |-> o[i].Type, Labels |-> o[i].Labels]]

\* the copy of the content of the block succeeded
CopySucceeded == DynDone /\ ~Failed

\* C24 as claimed: the destination of a copy holds no block of type tm_dynamic at any
\* depth.
C24_Original == DynDone => ~HasMetaBlock(gen)

\* C24 amended: the destination holds a block of type tm_dynamic only if a
\* meta-block of the source has tm_dynamic as its label, the type it generates; the
\* ordinary blocks of the source body, and those of the content of its meta-block
\* in every block the meta-block generated, are copied one to one, types and labels
\* kept, in order.
C24_MetaBlocksReplaced ==
    DynDone =>
        /\ HasMetaBlock(gen) => <<"tm_dynamic">> \in MetaLabelsIn(hclBlocks[1].Content)
        /\ ~Failed =>
              /\ CopiedOf(gen, hclBlocks[1].Content) = OrdinaryOf(hclBlocks[1].Content)
              /\ HasContent =>
                    \A i \in Generated :
                        CopiedOf(gen.blocks[i].Body, Dyn.Body.Blocks[1].Body) = OrdinaryOf(Dyn.Body.Blocks[1].Body)

\* C24 witness: a meta-block was expanded twice or more, its content holding a nested
\* meta-block and an ordinary block, and the destination holds no meta-block.
C24_Witness ==
    /\ CopySucceeded
    /\ HasContent
    /\ Cardinality(Generated) >= 2
    /\ MetaLabelsIn(Dyn.Body.Blocks[1].Body) = {<<"blk">>}
    /\ OrdinaryOf(Dyn.Body.Blocks[1].Body) # <<>>
    /\ ~HasMetaBlock(gen)

(***************************************************************************)
(* C25: the changed mark of the stack loader                               *)
(***************************************************************************)

ChangedCalls == {"LoadChanged", "TryLoadChanged"}

\* C25: a successful LoadChanged or TryLoadChanged returns a stack marked as
\* changed, a Load or TryLoad of the same directory that follows returns a stack
\* that is still marked, and no Load or TryLoad sets the mark of a stack.
C25_ChangedMarkKept ==
    [][/\ loader'.last.op \in ChangedCalls /\ loader'.last.found => loader'.last.s.changed
       /\ /\ loader.last.op \in ChangedCalls
          /\ loader.last.found
          /\ loader'.last.op \in LoadCalls
          /\ loader'.last.dir = loader.last.dir
          => loader'.last.found /\ loader'.last.s.changed
       /\ loader'.last.op \in LoadCalls =>
             \A d \in DOMAIN loader'.l :
                 loader'.l[d].changed => d \in DOMAIN loader.l /\ loader.l[d].changed]_vars

====
